---- MODULE Spec2Model ----
(***************************************************************************)
(* State-machine model of the MCP server backend (src-tauri/src):          *)
(*   - mcp_lifecycle.rs : the process registry PROCESSES and the commands  *)
(*     mcp_start_server, mcp_stop_server, mcp_restart_server,              *)
(*     mcp_get_status, mcp_list_running;                                   *)
(*   - mcp_installer.rs : the install tracker INSTALLS, the metadata store *)
(*     INSTALL_METADATA, install_server and its background task            *)
(*     do_install, cancel_install, cleanup_install, get_install_progress.  *)
(* Option<T> values are sets with at most one element: {} is None and {x}  *)
(* is Some(x).  A HashMap is a function whose DOMAIN is its key set.       *)
(***************************************************************************)
EXTENDS Integers, Sequences, FiniteSets, TLC

\* ------------------------------------------------------------------------
\* Bounds of the model
\* ------------------------------------------------------------------------
\* number of OS processes the lifecycle commands may spawn in one behaviour
MaxSpawn == 2
\* number of lifecycle commands the dispatcher hands to its worker threads
MaxCalls == 3
\* number of install ids install_server mints in one behaviour
MaxInstalls == 1
\* length of the package names and repositories validate_install is given
MaxNameLen == 4

Threads == {"t1", "t2"}
ServerIds == {"s1", "s2"}
SpawnErrors == {"ENOENT"}
NoThread == "nobody"

\* the mutexes beside PROCESSES: INSTALLS, INSTALL_METADATA and
\* INSTALL_PROCESSES of mcp_installer.rs, CACHE of mcp_registry.rs
MapLocks == {"INSTALLS", "INSTALL_METADATA", "INSTALL_PROCESSES", "CACHE"}

Pids == 1..MaxSpawn
InstallIds == 1..MaxInstalls
\* exit codes a child process exits with
ExitCodes == {0, 1}

VARIABLES
    procs,      \* PROCESSES: server id -> ProcEntry
    os,         \* the operating system's view of every child process
    owner,      \* pid -> server id the process was spawned for
    nextPid,    \* next process the OS will create
    lock,       \* holder of the PROCESSES mutex
    calls,      \* commands dispatched so far
    pc,         \* position of every command-handling thread
    call,       \* the command a thread is running
    local,      \* the ProcEntry a thread owns outside the map
    pre,        \* the ProcEntry found under the id when the command began
    ret,        \* the result returned by the step just taken, if it returned one
    installs,           \* INSTALLS: install id -> InstallationProgress
    install_metadata,   \* INSTALL_METADATA: install id -> InstallMetadata
    task,               \* the background thread of every install: its position,
                        \* its config, the error do_install returned and the
                        \* exit code of the tool it ran, if it failed with one
    nextInstall,        \* number of the next fresh install id
    fs,                 \* directories that exist on disk
    writers,            \* the documents of the persistence threads that have
                        \* not written yet
    disk,               \* the records in installation_metadata.json
    mutex,              \* holder of each of the other shared-map mutexes
    cache,              \* CACHE: the registry entries of the last rebuild
    pages,              \* the pages a paging client has put together so far
    serde,              \* a value on its way through serde_json and back
    startup             \* the task that loads the metadata document when the
                        \* application starts: its position and what it read

lifecycleVars == <<procs, os, owner, nextPid, lock, local, pre>>
installerVars ==
    <<installs, install_metadata, task, nextInstall, fs, writers, disk, mutex>>
registryVars == <<cache, pages>>

vars == <<procs, os, owner, nextPid, lock, calls, pc, call, local, pre, ret,
          installs, install_metadata, task, nextInstall, fs, writers, disk, mutex,
          cache, pages, serde, startup>>

\* ------------------------------------------------------------------------
\* mcp_lifecycle.rs : data
\* ------------------------------------------------------------------------
Some(x) == {x}
NoneV == {}
TheValue(opt) == CHOOSE x \in opt : TRUE

\* std::process::ExitStatus as seen through Child::try_wait / wait
OsUnborn == [st |-> "unborn", code |-> -1]
OsAlive == [st |-> "alive", code |-> -1]
\* a terminate request (SIGTERM) was delivered and the process still runs
OsTerm == [st |-> "term", code |-> -1]
\* terminated by a signal: ExitStatus::code() is None
OsSignaled == [st |-> "signaled", code |-> -1]
OsExited(c) == [st |-> "exited", code |-> c]

IsRunning(status) == status.st \in {"alive", "term"}
HasExited(status) == status.st \in {"signaled", "exited"}

\* now_iso() / SystemTime::now(): the clock reads the number of processes
\* and installs created so far, so every process and every install starts at
\* an instant of its own and a reading taken after a later creation differs
\* from one taken before it
now == (nextPid - 1) + (nextInstall - 1)

\* variant: the record counts the processes spawned before this one
NewProcess_M(pid, t) ==
    [pid |-> Some(pid), state |-> "Running", started_at |-> Some(t),
     stopped_at |-> NoneV, restart_count |-> pid - 1, last_error |-> NoneV,
     uptime |-> Some(0)]

\* the snapshot built by mcp_start_server after a successful spawn
NewProcess(pid, t) ==
    [pid |-> Some(pid), state |-> "Running", started_at |-> Some(t),
     stopped_at |-> NoneV, restart_count |-> 0, last_error |-> NoneV,
     uptime |-> Some(0)]

NewEntry(pid, t) == [child |-> pid, state |-> NewProcess(pid, t), started |-> t]

\* format!("Exited with code {code}")
ExitedWithCode(c) == [text |-> "Exited with code", code |-> c]

update_uptime(entry, t) ==
    [entry EXCEPT !.state.uptime = Some(t - entry.started)]

\* variant: every exit is taken for a clean stop
Polled_M(entry, status, t) ==
    IF HasExited(status)
    THEN IF status.st = "exited"
         THEN [entry EXCEPT !.state.state = "Stopped",
                            !.state.stopped_at = Some(t),
                            !.state.last_error = NoneV]
         ELSE entry
    ELSE update_uptime([entry EXCEPT !.state.state = "Running"], t)

\* the body of mcp_get_status once the entry is found: the try_wait poll
Polled(entry, status, t) ==
    IF HasExited(status)
    THEN IF status.st = "exited"
         THEN [entry EXCEPT
                 !.state.state = IF status.code = 0 THEN "Stopped" ELSE "Error",
                 !.state.stopped_at = Some(t),
                 !.state.last_error = IF status.code = 0 THEN NoneV
                                      ELSE Some(ExitedWithCode(status.code))]
         ELSE entry
    ELSE update_uptime([entry EXCEPT !.state.state = "Running"], t)

\* variant: the early return tests for the wrong state
AlreadyRunning_M(snapshot) == snapshot.state = "Starting"

\* mcp_start_server's test of the status it got back
AlreadyRunning(snapshot) == snapshot.state = "Running"

\* variant: the entry is looked up but stays in the map
MapRemove_M(m, id) == m

MapRemove(m, id) == [k \in DOMAIN m \ {id} |-> m[k]]
MapInsert(m, id, e) == [k \in DOMAIN m \cup {id} |-> IF k = id THEN e ELSE m[k]]

Call(op, id, cfg, force) ==
    [op |-> op, id |-> id, cfg |-> cfg, force |-> force, install |-> 0]
InstallerCall(op, n) ==
    [op |-> op, id |-> "none", cfg |-> FALSE, force |-> FALSE, install |-> n]
NoCall == Call("none", "none", FALSE, FALSE)

\* Result<_, String> of a command, with the command and what it found
Ok(t, c, found, vals) ==
    [thread |-> t, call |-> c, pre |-> found, kind |-> "ok", val |-> vals, err |-> NoneV]
Err(t, c, found, kind, text) ==
    [thread |-> t, call |-> c, pre |-> found, kind |-> kind, val |-> {}, err |-> Some(text)]
\* the load at startup is over and found no document
LoadDone == [pc |-> "done", doc |-> {}]

\* nothing is being serialised
NoSerde == [stage |-> "none"]

NoResult ==
    [thread |-> NoThread, call |-> NoCall, pre |-> NoneV, kind |-> "none", val |-> {}, err |-> NoneV]

Lookup(m, id) == IF id \in DOMAIN m THEN Some(m[id]) ELSE NoneV

\* ------------------------------------------------------------------------
\* mcp_installer.rs : data
\* ------------------------------------------------------------------------
\* paths are sequences of segments
AppDataDir == <<"app_data">>
UserDir == <<"home", "server">>
MissingDir == <<"home", "missing">>

\* InstallConfig; version, registry, branch, tag, commit and sub_path unset.
\* A package name and a repository are strings: sequences of characters.
NpmConfig(pkg, global) ==
    [source |-> "npm", package_name |-> Some(pkg), repository |-> NoneV,
     path |-> NoneV, global |-> global]
GitHubConfig(repository) ==
    [source |-> "github", package_name |-> NoneV,
     repository |-> Some(repository), path |-> NoneV, global |-> FALSE]
LocalConfig(path) ==
    [source |-> "local", package_name |-> NoneV, repository |-> NoneV,
     path |-> Some(path), global |-> FALSE]

\* the configs install_server is called with
Configs ==
    {NpmConfig(<<"a">>, FALSE), GitHubConfig(<<"A", "/", "a">>),
     LocalConfig(UserDir), LocalConfig(MissingDir)}

\* str::replace("/", "-")
ReplaceSlash(name) == [i \in 1..Len(name) |-> IF name[i] = "/" THEN "-" ELSE name[i]]

\* str::split('/').next_back(): what follows the last '/', all of it if none
LastSegment(name) ==
    LET slashes == {i \in 1..Len(name) : name[i] = "/"}
        from == IF slashes = {} THEN 1
                ELSE (CHOOSE i \in slashes : \A j \in slashes : j <= i) + 1
    IN SubSeq(name, from, Len(name))

\* PathBuf::join of a relative segment; joining the empty string names the
\* directory itself
Join(dir, segment) == IF segment = << >> THEN dir ELSE dir \o <<segment>>

\* lines 143 and 182: the directory the install goes to
TargetDir(config) ==
    IF config.source = "npm"
    THEN IF config.global THEN AppDataDir
         ELSE Join(AppDataDir \o <<"mcp_servers", "npm">>,
                   ReplaceSlash(TheValue(config.package_name)))
    ELSE IF config.source = "github"
    THEN Join(AppDataDir \o <<"mcp_servers", "github">>,
              LastSegment(TheValue(config.repository)))
    ELSE TheValue(config.path)

\* ------------------------------------------------------------------------
\* validate_install
\* ------------------------------------------------------------------------
Lower ==
    {"a", "b", "c", "d", "e", "f", "g", "h", "i", "j", "k", "l", "m",
     "n", "o", "p", "q", "r", "s", "t", "u", "v", "w", "x", "y", "z"}
Upper ==
    {"A", "B", "C", "D", "E", "F", "G", "H", "I", "J", "K", "L", "M",
     "N", "O", "P", "Q", "R", "S", "T", "U", "V", "W", "X", "Y", "Z"}
Digits == {"0", "1", "2", "3", "4", "5", "6", "7", "8", "9"}

\* line 68: the classes [a-z0-9-~] and [a-z0-9-._~]
NpmFirst == Lower \cup Digits \cup {"-", "~"}
NpmRest == NpmFirst \cup {".", "_"}
\* line 76: the classes [A-Za-z0-9_-] and [A-Za-z0-9_.-]
OwnerChars == Upper \cup Lower \cup Digits \cup {"_", "-"}
RepoChars == OwnerChars \cup {"."}

\* [a-z0-9-~][a-z0-9-._~]*
IsNpmPart(u) ==
    /\ Len(u) >= 1
    /\ u[1] \in NpmFirst
    /\ \A i \in 2..Len(u) : u[i] \in NpmRest

\* line 68: ^(@[a-z0-9-~][a-z0-9-._~]*/)?[a-z0-9-~][a-z0-9-._~]*$
IsNpmName(name) ==
    \/ IsNpmPart(name)
    \/ /\ Len(name) >= 1
       /\ name[1] = "@"
       /\ \E k \in 2..Len(name) :
             /\ name[k] = "/"
             /\ IsNpmPart(SubSeq(name, 2, k - 1))
             /\ IsNpmPart(SubSeq(name, k + 1, Len(name)))

\* line 76: ^[A-Za-z0-9_-]+/[A-Za-z0-9_.-]+$
IsGitHubRepository(name) ==
    \E k \in 2..(Len(name) - 1) :
        /\ name[k] = "/"
        /\ \A i \in 1..(k - 1) : name[i] \in OwnerChars
        /\ \A i \in (k + 1)..Len(name) : name[i] \in RepoChars

\* the external commands whose availability validate_install asks for
Tools == {"npm", "git"}

\* lines 64-90: the InstallationValidation for a config, given the
\* directories that exist and the tools on PATH; `probed` is not a field of
\* the result but the set of commands the call ran (lines 70 and 78)
validate_install(config, dirs, tools) ==
    IF config.source = "npm"
    THEN LET nameOk == IsNpmName(TheValue(config.package_name))
             npm == "npm" \in tools
         IN [valid |-> nameOk /\ npm,
             errors |-> (IF nameOk THEN << >> ELSE <<"Invalid npm package name">>)
                        \o (IF npm THEN << >> ELSE <<"npm is not available on PATH">>),
             dependencies |-> IF npm THEN <<"npm">> ELSE << >>,
             probed |-> {"npm"}]
    ELSE IF config.source = "github"
    THEN LET repoOk == IsGitHubRepository(TheValue(config.repository))
             git == "git" \in tools
         IN [valid |-> repoOk /\ git,
             errors |-> (IF repoOk THEN << >>
                         ELSE <<"Invalid GitHub repository format (owner/repo)">>)
                        \o (IF git THEN << >> ELSE <<"git is not available on PATH">>),
             dependencies |-> IF git THEN <<"git">> ELSE << >>,
             probed |-> {"git"}]
    ELSE LET dirOk == TheValue(config.path) \in dirs
         IN [valid |-> dirOk,
             errors |-> IF dirOk THEN << >> ELSE <<"Path must exist and be a directory">>,
             dependencies |-> << >>,
             probed |-> {}]

\* line 95: the record install_server creates
InitialProgress(id, t) ==
    [install_id |-> id, status |-> "Pending", progress |-> 0,
     message |-> "Preparing installation", current_step |-> NoneV,
     total_steps |-> NoneV, current_step_number |-> NoneV, started_at |-> t,
     completed_at |-> NoneV, error |-> NoneV]

\* an error string, with the exit status it embeds if it embeds one
ErrorText(text, code) == [text |-> text, code |-> code]

\* variant: a cancelled record is no longer patched
Update_M(m, id, patch) ==
    IF id \in DOMAIN m /\ m[id].status # "Cancelled"
    THEN [m EXCEPT ![id] = [f \in DOMAIN m[id] |->
                              IF f \in DOMAIN patch THEN patch[f] ELSE m[id][f]]]
    ELSE m

\* line 118: update(install_id, patch); a patch is the fields it assigns
Update(m, id, patch) ==
    IF id \in DOMAIN m
    THEN [m EXCEPT ![id] = [f \in DOMAIN m[id] |->
                              IF f \in DOMAIN patch THEN patch[f] ELSE m[id][f]]]
    ELSE m

\* lines 156-168, 198-210, 227-239: the metadata record of an install
Metadata(id, config, t) ==
    [server_id |-> id, install_id |-> id, source_type |-> config.source,
     install_path |-> TargetDir(config), package_name |-> config.package_name,
     repository |-> config.repository, version |-> NoneV, installed_at |-> t,
     client_type |-> Some("mcp-hub"), original_config |-> NoneV,
     config_source_path |-> NoneV]

\* ------------------------------------------------------------------------
\* Initial state: the lazily created maps are empty
\* ------------------------------------------------------------------------
Init ==
    /\ procs = << >>
    /\ os = [p \in Pids |-> OsUnborn]
    /\ owner = << >>
    /\ nextPid = 1
    /\ lock = NoThread
    /\ calls = 0
    /\ pc = [t \in Threads |-> "idle"]
    /\ call = [t \in Threads |-> NoCall]
    /\ local = [t \in Threads |-> NoneV]
    /\ pre = [t \in Threads |-> NoneV]
    /\ ret = NoResult
    /\ installs = << >>
    /\ install_metadata = << >>
    /\ task = << >>
    /\ nextInstall = 1
    /\ fs = {AppDataDir, UserDir}
    /\ writers = {}
    /\ disk = {}
    /\ mutex = [l \in MapLocks |-> NoThread]
    /\ cache = << >>
    /\ pages = << >>
    /\ serde = NoSerde
    /\ startup = LoadDone

\* the dispatcher hands a command to the first idle worker thread
Dispatch(t) ==
    /\ pc[t] = "idle"
    /\ t = "t2" => pc["t1"] # "idle"
    /\ calls < MaxCalls
    /\ calls' = calls + 1

\* a command returns: its thread goes back to the dispatcher
Return(t, result) ==
    /\ ret' = result
    /\ pc' = [pc EXCEPT ![t] = "idle"]
    /\ call' = [call EXCEPT ![t] = NoCall]
    /\ pre' = [pre EXCEPT ![t] = NoneV]

\* a command goes on to its next step
Goto(t, label, c, found) ==
    /\ ret' = NoResult
    /\ pc' = [pc EXCEPT ![t] = label]
    /\ call' = [call EXCEPT ![t] = c]
    /\ pre' = [pre EXCEPT ![t] = found]

\* ------------------------------------------------------------------------
\* mcp_start_server
\* ------------------------------------------------------------------------
\* lines 66-70: the call of mcp_get_status and the early return
StartCheck(t, id, c) ==
    /\ lock = NoThread
    /\ IF id \in DOMAIN procs
       THEN LET e == Polled(procs[id], os[procs[id].child], now) IN
            /\ procs' = [procs EXCEPT ![id] = e]
            /\ IF AlreadyRunning(e.state)
               THEN Return(t, Ok(t, c, Lookup(procs, id), {e.state}))
               ELSE Goto(t, "start_spawn", c, Lookup(procs, id))
       ELSE /\ procs' = procs
            /\ Goto(t, "start_spawn", c, NoneV)
    /\ UNCHANGED <<os, owner, nextPid, lock, local, installerVars, registryVars, serde, startup>>

StartCall(t, id) ==
    /\ Dispatch(t)
    /\ StartCheck(t, id, Call("start", id, TRUE, FALSE))

\* lines 73-102: cmd.spawn() succeeds, the record is built
StartSpawnOk(t) ==
    /\ pc[t] = "start_spawn"
    /\ nextPid <= MaxSpawn
    /\ os' = [os EXCEPT ![nextPid] = OsAlive]
    /\ owner' = MapInsert(owner, nextPid, call[t].id)
    /\ nextPid' = nextPid + 1
    /\ local' = [local EXCEPT ![t] = Some(NewEntry(nextPid, now))]
    /\ pc' = [pc EXCEPT ![t] = "start_insert"]
    /\ ret' = NoResult
    /\ UNCHANGED <<calls, procs, lock, call, pre, installerVars, registryVars, serde, startup>>

\* variant: a failed spawn discards the stale record of the id
StartSpawnFail_M(t, e) ==
    /\ pc[t] = "start_spawn"
    /\ procs' = MapRemove(procs, call[t].id)
    /\ Return(t, Err(t, call[t], pre[t], "spawn_err", e))
    /\ UNCHANGED <<calls, os, owner, nextPid, lock, local, installerVars, registryVars, serde, startup>>

\* line 85: cmd.spawn() fails
StartSpawnFail(t, e) ==
    /\ pc[t] = "start_spawn"
    /\ Return(t, Err(t, call[t], pre[t], "spawn_err", e))
    /\ UNCHANGED <<calls, procs, os, owner, nextPid, lock, local, installerVars, registryVars, serde, startup>>

\* lines 103-105: insert under the lock, return the snapshot
StartInsert(t) ==
    /\ pc[t] = "start_insert"
    /\ lock = NoThread
    /\ procs' = MapInsert(procs, call[t].id, TheValue(local[t]))
    /\ local' = [local EXCEPT ![t] = NoneV]
    /\ Return(t, Ok(t, call[t], pre[t], {TheValue(local[t]).state}))
    /\ UNCHANGED <<calls, os, owner, nextPid, lock, installerVars, registryVars, serde, startup>>

\* ------------------------------------------------------------------------
\* mcp_stop_server
\* ------------------------------------------------------------------------
\* Child::kill / SIGKILL: a running process is terminated
Killed(status) == IF IsRunning(status) THEN OsSignaled ELSE status

\* lines 118-128: SIGTERM where the platform has it (the process decides
\* when, and whether, it exits), Child::kill where it has not
GracefulSignals == {"sigterm", "kill"}
Signalled(status, sig) ==
    IF IsRunning(status)
    THEN IF sig = "sigterm" THEN OsTerm ELSE OsSignaled
    ELSE status

\* lines 110-114: the entry leaves the map and is marked Stopping
StopRemove(t, id) ==
    /\ procs' = MapRemove(procs, id)
    /\ local' = [local EXCEPT ![t] = Some([procs[id] EXCEPT !.state.state = "Stopping"])]

\* lines 118-131 up to the blocking wait; the guard `map` taken in line 110
\* lives to the end of the function
StopGraceful(t, id, c, label) ==
    \E sig \in GracefulSignals :
        /\ StopRemove(t, id)
        /\ os' = [os EXCEPT ![procs[id].child] = Signalled(@, sig)]
        /\ lock' = t
        /\ Goto(t, label, c, Lookup(procs, id))

\* variant: stopping an id without entry counts as success
StopNotFound_M(t, c) ==
    Return(t, Ok(t, c, NoneV, {}))

\* line 112: map.remove(..).ok_or_else(..)? on an id without entry
StopNotFound(t, c) ==
    Return(t, Err(t, c, NoneV, "not_found", "No running process"))

\* variant: the entry is put back when the kill fails
StopKillFailed_M(t, id, c) ==
    /\ HasExited(os[procs[id].child])
    /\ procs' = procs
    /\ Return(t, Err(t, c, Lookup(procs, id), "kill_err", "Failed to kill process"))
    /\ UNCHANGED <<os, lock, local>>

\* lines 112-116: kill fails on a process that is gone already; `?` returns
\* after the entry was removed
StopKillFailed(t, id, c) ==
    /\ HasExited(os[procs[id].child])
    /\ procs' = MapRemove(procs, id)
    /\ Return(t, Err(t, c, Lookup(procs, id), "kill_err", "Failed to kill process"))
    /\ UNCHANGED <<os, lock, local>>

\* lines 109-132 up to the blocking wait
StopCall(t, id, force) ==
    LET c == Call("stop", id, FALSE, force) IN
    /\ Dispatch(t)
    /\ lock = NoThread
    /\ IF id \notin DOMAIN procs
       THEN /\ StopNotFound(t, c)
            /\ UNCHANGED <<procs, os, lock, local>>
       ELSE IF force
            THEN \/ \* kill succeeds; lines 134-136 act on the entry, which is
                    \* then dropped together with the lock guard
                    /\ procs' = MapRemove(procs, id)
                    /\ os' = [os EXCEPT ![procs[id].child] = Killed(@)]
                    /\ Return(t, Ok(t, c, Lookup(procs, id), {}))
                    /\ UNCHANGED <<lock, local>>
                 \/ StopKillFailed(t, id, c)
            ELSE StopGraceful(t, id, c, "stop_wait")
    /\ UNCHANGED <<owner, nextPid, installerVars, registryVars, serde, startup>>

\* lines 131-136: entry.child.wait() returns, the entry and the guard drop
StopWaitDone(t) ==
    /\ pc[t] = "stop_wait"
    /\ HasExited(os[TheValue(local[t]).child])
    /\ lock' = NoThread
    /\ local' = [local EXCEPT ![t] = NoneV]
    /\ Return(t, Ok(t, call[t], pre[t], {}))
    /\ UNCHANGED <<calls, procs, os, owner, nextPid, installerVars, registryVars, serde, startup>>

\* ------------------------------------------------------------------------
\* mcp_restart_server
\* ------------------------------------------------------------------------
\* line 142: mcp_stop_server(server_id, Some(false)), its result ignored
RestartCall(t, id, cfg) ==
    LET c == Call("restart", id, cfg, FALSE) IN
    /\ Dispatch(t)
    /\ lock = NoThread
    /\ IF id \notin DOMAIN procs
       THEN /\ Goto(t, "restart_sleep", c, NoneV)
            /\ UNCHANGED <<procs, os, lock, local>>
       ELSE StopGraceful(t, id, c, "restart_wait")
    /\ UNCHANGED <<owner, nextPid, installerVars, registryVars, serde, startup>>

RestartWaitDone(t) ==
    /\ pc[t] = "restart_wait"
    /\ HasExited(os[TheValue(local[t]).child])
    /\ lock' = NoThread
    /\ local' = [local EXCEPT ![t] = NoneV]
    /\ pc' = [pc EXCEPT ![t] = "restart_sleep"]
    /\ ret' = NoResult
    /\ UNCHANGED <<calls, procs, os, owner, nextPid, call, pre, installerVars, registryVars, serde, startup>>

\* lines 144-149: after the settle delay, start again or fail
RestartResume(t) ==
    /\ pc[t] = "restart_sleep"
    /\ calls' = calls
    /\ IF call[t].cfg
       THEN StartCheck(t, call[t].id, call[t])
       ELSE /\ Return(t, Err(t, call[t], pre[t], "missing_cfg", "Missing configuration for restart"))
            /\ UNCHANGED <<procs, os, owner, nextPid, lock, local, installerVars, registryVars, serde, startup>>

\* ------------------------------------------------------------------------
\* mcp_get_status, mcp_list_running
\* ------------------------------------------------------------------------
GetStatusCall(t, id) ==
    LET c == Call("status", id, FALSE, FALSE) IN
    /\ Dispatch(t)
    /\ lock = NoThread
    /\ IF id \notin DOMAIN procs
       THEN /\ Return(t, Err(t, c, NoneV, "not_found", "No process"))
            /\ procs' = procs
       ELSE LET e == Polled(procs[id], os[procs[id].child], now) IN
            /\ procs' = [procs EXCEPT ![id] = e]
            /\ Return(t, Ok(t, c, Lookup(procs, id), {e.state}))
    /\ UNCHANGED <<os, owner, nextPid, lock, local, installerVars, registryVars, serde, startup>>

\* the Vec<MCPServerProcess> is modelled as the set of (id, snapshot) pairs:
\* HashMap::values_mut fixes no order
ListCall(t) ==
    /\ Dispatch(t)
    /\ lock = NoThread
    /\ procs' = [k \in DOMAIN procs |-> update_uptime(procs[k], now)]
    /\ Return(t, Ok(t, Call("list", "none", FALSE, FALSE), NoneV,
                    {[server_id |-> k, process |-> update_uptime(procs[k], now).state] :
                       k \in DOMAIN procs}))
    /\ UNCHANGED <<os, owner, nextPid, lock, local, installerVars, registryVars, serde, startup>>

\* ------------------------------------------------------------------------
\* Environment: child processes exit on their own
\* ------------------------------------------------------------------------
ExitOutcomes == {OsExited(c) : c \in ExitCodes} \cup {OsSignaled}

ProcExit(p, outcome) ==
    /\ IsRunning(os[p])
    /\ os' = [os EXCEPT ![p] = outcome]
    /\ ret' = NoResult
    /\ UNCHANGED <<calls, procs, owner, nextPid, lock, pc, call, local, pre, installerVars, registryVars, serde, startup>>

LifecycleNext ==
    \/ \E t \in Threads, id \in ServerIds : StartCall(t, id)
    \/ \E t \in Threads : StartSpawnOk(t)
    \/ \E t \in Threads, e \in SpawnErrors : StartSpawnFail(t, e)
    \/ \E t \in Threads : StartInsert(t)
    \/ \E t \in Threads, id \in ServerIds, force \in BOOLEAN : StopCall(t, id, force)
    \/ \E t \in Threads : StopWaitDone(t)
    \/ \E t \in Threads, id \in ServerIds, cfg \in BOOLEAN : RestartCall(t, id, cfg)
    \/ \E t \in Threads : RestartWaitDone(t)
    \/ \E t \in Threads : RestartResume(t)
    \/ \E t \in Threads, id \in ServerIds : GetStatusCall(t, id)
    \/ \E t \in Threads : ListCall(t)
    \/ \E p \in Pids, outcome \in ExitOutcomes : ProcExit(p, outcome)

Next == LifecycleNext
Spec == Init /\ [][Next]_vars

\* ------------------------------------------------------------------------
\* mcp_installer.rs : install_server and the commands on the tracker
\* ------------------------------------------------------------------------
\* an id is in nobody's hands but install_server's until that call returns
Unreturned(id) ==
    \E t \in Threads : pc[t] = "install_read" /\ call[t].install = id

TaskAt(id, label) == id \in DOMAIN task /\ task[id].pc = label
TaskGoto(id, label) == task' = [task EXCEPT ![id].pc = label]
TaskFail(id, e) == task' = [task EXCEPT ![id].pc = "failed", ![id].err = Some(e)]

\* lines 94-112: mint the id, insert the Pending record, spawn the thread
InstallCall(t, config) ==
    /\ Dispatch(t)
    /\ nextInstall <= MaxInstalls
    /\ installs' = MapInsert(installs, nextInstall, InitialProgress(nextInstall, now))
    /\ task' = MapInsert(task, nextInstall,
                         [pc |-> "begin", config |-> config, err |-> NoneV,
                          exit |-> NoneV])
    /\ nextInstall' = nextInstall + 1
    /\ Goto(t, "install_read", InstallerCall("install", nextInstall), NoneV)
    /\ UNCHANGED <<lifecycleVars, install_metadata, fs, writers, disk, mutex, registryVars, serde, startup>>

\* lines 114-115: read the record back from the map and return it
InstallReturn(t) ==
    /\ pc[t] = "install_read"
    /\ call[t].install \in DOMAIN installs
    /\ Return(t, Ok(t, call[t], NoneV, {installs[call[t].install]}))
    /\ UNCHANGED <<calls, lifecycleVars, installerVars, registryVars, serde, startup>>

\* lines 253-256
GetProgressCall(t, id) ==
    LET c == InstallerCall("progress", id) IN
    /\ Dispatch(t)
    /\ ~Unreturned(id)
    /\ IF id \in DOMAIN installs
       THEN Return(t, Ok(t, c, NoneV, {installs[id]}))
       ELSE Return(t, Err(t, c, NoneV, "not_found", "Installation not found"))
    /\ UNCHANGED <<lifecycleVars, installerVars, registryVars, serde, startup>>

\* line 260: the patch cancel_install applies
CancelPatch(t) ==
    [status |-> "Cancelled", message |-> "Installation cancelled",
     completed_at |-> Some(t)]

\* lines 258-262
CancelCall(t, id) ==
    /\ Dispatch(t)
    /\ ~Unreturned(id)
    /\ installs' = Update(installs, id, CancelPatch(now))
    /\ Return(t, Ok(t, InstallerCall("cancel", id), NoneV, {}))
    /\ UNCHANGED <<lifecycleVars, install_metadata, task, nextInstall, fs, writers, disk, mutex, registryVars, serde, startup>>

\* variant: the metadata record goes with the progress record
CleanupCall_M(t, id) ==
    /\ Dispatch(t)
    /\ ~Unreturned(id)
    /\ installs' = MapRemove(installs, id)
    /\ install_metadata' = MapRemove(install_metadata, id)
    /\ Return(t, Ok(t, InstallerCall("cleanup", id), NoneV, {}))
    /\ UNCHANGED <<lifecycleVars, task, nextInstall, fs, writers, disk, mutex, registryVars, serde, startup>>

\* lines 264-268
CleanupCall(t, id) ==
    /\ Dispatch(t)
    /\ ~Unreturned(id)
    /\ installs' = MapRemove(installs, id)
    /\ Return(t, Ok(t, InstallerCall("cleanup", id), NoneV, {}))
    /\ UNCHANGED <<lifecycleVars, install_metadata, task, nextInstall, fs, writers, disk, mutex, registryVars, serde, startup>>

\* ------------------------------------------------------------------------
\* do_install: the background thread
\* ------------------------------------------------------------------------
\* variant: the clone is announced under the status of the step after it
DownloadingPatch_M(config) ==
    [status |-> IF config.source = "npm" THEN "Downloading" ELSE "Installing",
     progress |-> 10,
     message |-> IF config.source = "npm" THEN "Downloading" ELSE "Cloning",
     current_step |-> Some(IF config.source = "npm" THEN "Downloading" ELSE "Cloning"),
     total_steps |-> Some(IF config.source = "npm" THEN 3 ELSE 4),
     current_step_number |-> Some(1)]

\* lines 140, 180, 224: the first patch of each source
DownloadingPatch(config) ==
    [status |-> "Downloading", progress |-> 10,
     message |-> IF config.source = "npm" THEN "Downloading" ELSE "Cloning",
     current_step |-> Some(IF config.source = "npm" THEN "Downloading" ELSE "Cloning"),
     total_steps |-> Some(IF config.source = "npm" THEN 3 ELSE 4),
     current_step_number |-> Some(1)]

\* variant: the npm configuring step reports less than the download did
StagedPatch_M(config) ==
    IF config.source = "npm"
    THEN [status |-> "Configuring", progress |-> 8, message |-> "Configuring server...",
          current_step |-> Some("Configuring"), current_step_number |-> Some(2)]
    ELSE IF config.source = "github"
    THEN [status |-> "Installing", progress |-> 60, message |-> "Installing dependencies...",
          current_step |-> Some("Installing deps"), current_step_number |-> Some(3)]
    ELSE [status |-> "Configuring", progress |-> 50, message |-> "Configuring local server...",
          current_step |-> Some("Configuring"), total_steps |-> Some(2),
          current_step_number |-> Some(1)]

\* lines 153, 192, 224: the patch after the fetch
StagedPatch(config) ==
    IF config.source = "npm"
    THEN [status |-> "Configuring", progress |-> 80, message |-> "Configuring server...",
          current_step |-> Some("Configuring"), current_step_number |-> Some(2)]
    ELSE IF config.source = "github"
    THEN [status |-> "Installing", progress |-> 60, message |-> "Installing dependencies...",
          current_step |-> Some("Installing deps"), current_step_number |-> Some(3)]
    ELSE [status |-> "Configuring", progress |-> 50, message |-> "Configuring local server...",
          current_step |-> Some("Configuring"), total_steps |-> Some(2),
          current_step_number |-> Some(1)]

\* lines 176, 218, 247
CompletedPatch(config, t) ==
    [status |-> "Completed", progress |-> 100,
     message |-> IF config.source = "local" THEN "Local server configured"
                 ELSE "Installation completed successfully",
     current_step |-> Some("Completed"),
     current_step_number |-> Some(IF config.source = "npm" THEN 3
                                  ELSE IF config.source = "github" THEN 4 ELSE 2),
     completed_at |-> Some(t)]

\* lines 151, 190, 223: the patch do_install applies before it returns Err
FailedPatch(config, status, t) ==
    [status |-> "Failed", progress |-> 0,
     message |-> IF config.source = "npm" THEN "Installation failed"
                 ELSE IF config.source = "github" THEN "Clone failed"
                 ELSE "Invalid local path",
     error |-> Some(IF config.source = "npm"
                    THEN ErrorText("npm exited with status", status)
                    ELSE IF config.source = "github"
                    THEN ErrorText("git exited with status", status)
                    ELSE ErrorText("Path must exist and be directory", NoneV)),
     completed_at |-> Some(t)]

\* the Err value do_install returns after FailedPatch
FailedError(config) ==
    IF config.source = "npm" THEN ErrorText("npm install failed", NoneV)
    ELSE IF config.source = "github" THEN ErrorText("git clone failed", NoneV)
    ELSE ErrorText("invalid path", NoneV)

\* variant: the closure logs the error and leaves the status alone
WrapperPatch_M(e, t) ==
    [message |-> "Installation failed: " \o e.text, error |-> Some(e)]

\* lines 104-110: the patch of the thread closure when do_install failed
WrapperPatch(e, t) ==
    [status |-> "Failed", progress |-> 0,
     message |-> "Installation failed: " \o e.text, error |-> Some(e),
     completed_at |-> Some(t)]

IoErrors == {"EACCES"}
\* ExitStatus::code() of an unsuccessful command: Some(c), or None on a signal
FailureCodes == {Some(c) : c \in ExitCodes \ {0}} \cup {NoneV}

\* lines 140, 180: npm and github announce the download
TaskBeginFetch(id) ==
    /\ TaskAt(id, "begin")
    /\ task[id].config.source \in {"npm", "github"}
    /\ installs' = Update(installs, id, DownloadingPatch(task[id].config))
    /\ TaskGoto(id, "mkdir")
    /\ ret' = NoResult
    /\ UNCHANGED <<calls, pc, call, lifecycleVars, install_metadata, nextInstall, fs, writers, disk, mutex, registryVars, serde, startup>>

\* lines 222-224: local checks the path, then announces
TaskBeginLocal(id) ==
    /\ TaskAt(id, "begin")
    /\ task[id].config.source = "local"
    /\ IF TargetDir(task[id].config) \in fs
       THEN /\ installs' = Update(installs, id, StagedPatch(task[id].config))
            /\ TaskGoto(id, "meta")
       ELSE /\ installs' = Update(installs, id, FailedPatch(task[id].config, NoneV, now))
            /\ TaskFail(id, FailedError(task[id].config))
    /\ ret' = NoResult
    /\ UNCHANGED <<calls, pc, call, lifecycleVars, install_metadata, nextInstall, fs, writers, disk, mutex, registryVars, serde, startup>>

\* lines 142-144, 181-183: app_data_dir and create_dir_all succeed
TaskMkdirOk(id) ==
    /\ TaskAt(id, "mkdir")
    /\ fs' = fs \cup {TargetDir(task[id].config)}
    /\ TaskGoto(id, "run")
    /\ ret' = NoResult
    /\ UNCHANGED <<calls, pc, call, lifecycleVars, installs, install_metadata, nextInstall, writers, disk, mutex, registryVars, serde, startup>>

\* lines 142-144, 150, 181-183, 189: a `?` leaves do_install with an OS error
TaskIoError(id, e) ==
    /\ id \in DOMAIN task
    /\ task[id].pc \in {"mkdir", "run"}
    /\ TaskFail(id, ErrorText(e, NoneV))
    /\ ret' = NoResult
    /\ UNCHANGED <<calls, pc, call, lifecycleVars, installs, install_metadata, nextInstall, fs, writers, disk, mutex, registryVars, serde, startup>>

\* lines 150-153, 189-195: the command succeeded
TaskRunOk(id) ==
    /\ TaskAt(id, "run")
    /\ installs' = Update(installs, id, StagedPatch(task[id].config))
    /\ TaskGoto(id, "meta")
    /\ ret' = NoResult
    /\ UNCHANGED <<calls, pc, call, lifecycleVars, install_metadata, nextInstall, fs, writers, disk, mutex, registryVars, serde, startup>>

\* lines 151, 190: the command did not succeed
TaskRunFailed(id, status) ==
    /\ TaskAt(id, "run")
    /\ installs' = Update(installs, id, FailedPatch(task[id].config, status, now))
    /\ task' = [task EXCEPT ![id].pc = "failed",
                            ![id].err = Some(FailedError(task[id].config)),
                            ![id].exit = status]
    /\ ret' = NoResult
    /\ UNCHANGED <<calls, pc, call, lifecycleVars, install_metadata, nextInstall, fs, writers, disk, mutex, registryVars, serde, startup>>

\* lines 169-171, 211-213, 240-242
TaskSaveMetadata(id) ==
    /\ TaskAt(id, "meta")
    /\ install_metadata' = MapInsert(install_metadata, id, Metadata(id, task[id].config, now))
    /\ TaskGoto(id, "persist")
    /\ ret' = NoResult
    /\ UNCHANGED <<calls, pc, call, lifecycleVars, installs, nextInstall, fs, writers, disk, mutex, registryVars, serde, startup>>

\* lines 124-125: meta_map.values().cloned().collect(), the records of the
\* map as the document to write (a JSON array; its order is not fixed)
Snapshot(m) == {m[k] : k \in DOMAIN m}

\* lines 121-135: persist_metadata copies the map and spawns the writer
TaskPersist(id) ==
    /\ TaskAt(id, "persist")
    /\ writers' = writers \cup {Snapshot(install_metadata)}
    /\ TaskGoto(id, "complete")
    /\ ret' = NoResult
    /\ UNCHANGED <<calls, pc, call, lifecycleVars, installs, install_metadata, nextInstall, fs, disk, mutex, registryVars, serde, startup>>

\* lines 176, 218, 247
TaskComplete(id) ==
    /\ TaskAt(id, "complete")
    /\ installs' = Update(installs, id, CompletedPatch(task[id].config, now))
    /\ TaskGoto(id, "done")
    /\ ret' = NoResult
    /\ UNCHANGED <<calls, pc, call, lifecycleVars, install_metadata, nextInstall, fs, writers, disk, mutex, registryVars, serde, startup>>

\* lines 101-111: the closure records the error do_install returned
TaskWrapperFailed(id) ==
    /\ TaskAt(id, "failed")
    /\ installs' = Update(installs, id, WrapperPatch(TheValue(task[id].err), now))
    /\ TaskGoto(id, "done")
    /\ ret' = NoResult
    /\ UNCHANGED <<calls, pc, call, lifecycleVars, install_metadata, nextInstall, fs, writers, disk, mutex, registryVars, serde, startup>>

\* storage.rs save_installation_metadata: ensure_app_data_dir, then fs::write
\* of the whole document
WriterRun(snapshot) ==
    /\ snapshot \in writers
    /\ writers' = writers \ {snapshot}
    /\ fs' = fs \cup {AppDataDir}
    /\ disk' = snapshot
    /\ ret' = NoResult
    /\ UNCHANGED <<calls, pc, call, lifecycleVars, installs, install_metadata, task, nextInstall, mutex, registryVars, serde, startup>>

\* mcp_installer.rs lines 129-131: the write fails, the error is logged
WriterFail(snapshot) ==
    /\ snapshot \in writers
    /\ writers' = writers \ {snapshot}
    /\ ret' = NoResult
    /\ UNCHANGED <<calls, pc, call, lifecycleVars, installs, install_metadata, task, nextInstall, fs, disk, mutex, registryVars, serde, startup>>

InstallNext ==
    \/ \E t \in Threads, config \in Configs : InstallCall(t, config)
    \/ \E t \in Threads : InstallReturn(t)
    \/ \E t \in Threads, id \in InstallIds : GetProgressCall(t, id)
    \/ \E t \in Threads, id \in InstallIds : CancelCall(t, id)
    \/ \E t \in Threads, id \in InstallIds : CleanupCall(t, id)
    \/ \E id \in InstallIds : TaskBeginFetch(id)
    \/ \E id \in InstallIds : TaskBeginLocal(id)
    \/ \E id \in InstallIds : TaskMkdirOk(id)
    \/ \E id \in InstallIds, e \in IoErrors : TaskIoError(id, e)
    \/ \E id \in InstallIds : TaskRunOk(id)
    \/ \E id \in InstallIds, status \in FailureCodes : TaskRunFailed(id, status)
    \/ \E id \in InstallIds : TaskSaveMetadata(id)
    \/ \E id \in InstallIds : TaskPersist(id)
    \/ \E id \in InstallIds : TaskComplete(id)
    \/ \E id \in InstallIds : TaskWrapperFailed(id)
    \/ \E snapshot \in writers : WriterRun(snapshot)
    \/ \E snapshot \in writers : WriterFail(snapshot)

InstallSpec == Init /\ [][InstallNext]_vars

\* ------------------------------------------------------------------------
\* validate_install as a function of its input: every npm and github
\* identifier up to MaxNameLen characters, every local path, every set of
\* tools on PATH
\* ------------------------------------------------------------------------
NameChars == {"a", "A", "@", "/", "."}

RECURSIVE Names(_)
Names(n) ==
    IF n = 0 THEN {<< >>}
    ELSE Names(n - 1) \cup {Append(s, c) : s \in Names(n - 1), c \in NameChars}

ValidateConfigs ==
    {NpmConfig(name, FALSE) : name \in Names(MaxNameLen)}
    \cup {GitHubConfig(name) : name \in Names(MaxNameLen)}
    \cup {LocalConfig(UserDir), LocalConfig(MissingDir)}

\* a validate_install command handed to a thread, with the state of PATH
ValidateRequest(config, tools) == [op |-> "validate", config |-> config, tools |-> tools]

\* the state after construction, with one validate_install command pending
ValidateInit ==
    \E config \in ValidateConfigs, tools \in SUBSET Tools :
        /\ procs = << >>
        /\ os = [p \in Pids |-> OsUnborn]
        /\ owner = << >>
        /\ nextPid = 1
        /\ lock = NoThread
        /\ calls = 1
        /\ pc = [t \in Threads |-> IF t = "t1" THEN "validate" ELSE "idle"]
        /\ call = [t \in Threads |-> IF t = "t1" THEN ValidateRequest(config, tools)
                                      ELSE NoCall]
        /\ local = [t \in Threads |-> NoneV]
        /\ pre = [t \in Threads |-> NoneV]
        /\ ret = NoResult
        /\ installs = << >>
        /\ install_metadata = << >>
        /\ task = << >>
        /\ nextInstall = 1
        /\ fs = {AppDataDir, UserDir}
        /\ writers = {}
        /\ disk = {}
        /\ mutex = [l \in MapLocks |-> NoThread]
        /\ cache = << >>
        /\ pages = << >>
        /\ serde = NoSerde
        /\ startup = LoadDone

\* lines 63-90
ValidateCall(t) ==
    /\ pc[t] = "validate"
    /\ Return(t, Ok(t, call[t], NoneV,
                    {validate_install(call[t].config, fs, call[t].tools)}))
    /\ UNCHANGED <<calls, lifecycleVars, installerVars, registryVars, serde, startup>>

ValidateNext == \E t \in Threads : ValidateCall(t)

ValidateSpec == ValidateInit /\ [][ValidateNext]_vars

\* the thread std::thread::spawn started runs, and every external command it
\* waits for terminates: the background task of an install keeps taking steps
TaskStep(id) ==
    \/ TaskBeginFetch(id)
    \/ TaskBeginLocal(id)
    \/ TaskMkdirOk(id)
    \/ \E e \in IoErrors : TaskIoError(id, e)
    \/ TaskRunOk(id)
    \/ \E status \in FailureCodes : TaskRunFailed(id, status)
    \/ TaskSaveMetadata(id)
    \/ TaskPersist(id)
    \/ TaskComplete(id)
    \/ TaskWrapperFailed(id)

InstallLiveSpec ==
    Init /\ [][InstallNext]_vars /\ \A id \in InstallIds : WF_vars(TaskStep(id))

\* ------------------------------------------------------------------------
\* uninstall_server
\* ------------------------------------------------------------------------
\* Option::unwrap_or
UnwrapOr(opt, default) == IF opt = NoneV THEN default ELSE TheValue(opt)

IsPrefix(p, q) == Len(p) <= Len(q) /\ SubSeq(q, 1, Len(p)) = p

\* variant: the directory is left where it is
RemoveDirAll_M(dirs, path) == dirs

\* std::fs::remove_dir_all: the directory goes with everything below it
RemoveDirAll(dirs, path) == {d \in dirs : ~IsPrefix(path, d)}

\* an uninstall_server command; `metadata` is the copy taken in lines 290-298
UninstallRequest(id, sid, stop, metadata) ==
    [op |-> "uninstall", install |-> id, server_id |-> sid, stop_process |-> stop,
     metadata |-> metadata]

\* the values of stop_process callers pass
StopFlags == {NoneV, Some(FALSE)}
\* the values of server_id callers pass
ServerIdArgs == {NoneV} \cup {Some(k) : k \in ServerIds}

\* variant: an id without metadata counts as already uninstalled
UninstallNotFound_M(t, c) ==
    /\ Return(t, Ok(t, c, NoneV, {}))
    /\ installs' = MapRemove(installs, c.install)

\* line 297: ok_or_else(..)? on an id without metadata
UninstallNotFound(t, c) ==
    /\ Return(t, Err(t, c, NoneV, "not_found", "Installation metadata not found"))
    /\ installs' = installs

\* lines 290-302: the lookup of the metadata and the decision to stop
UninstallCall(t, id, sid, stop) ==
    /\ Dispatch(t)
    /\ IF id \notin DOMAIN install_metadata
       THEN UninstallNotFound(t, UninstallRequest(id, sid, stop, NoneV))
       ELSE /\ Goto(t, IF UnwrapOr(stop, TRUE) /\ sid # NoneV
                       THEN "uninstall_stop" ELSE "uninstall_delete",
                    UninstallRequest(id, sid, stop, Some(install_metadata[id])), NoneV)
            /\ installs' = installs
    /\ UNCHANGED <<procs, os, owner, nextPid, lock, local,
                   install_metadata, task, nextInstall, fs, writers, disk, mutex, registryVars, serde, startup>>

\* line 305: mcp_stop_server(sid, Some(false)) up to its blocking wait; its
\* not-found error is dropped
UninstallStop(t) ==
    LET sid == TheValue(call[t].server_id) IN
    /\ pc[t] = "uninstall_stop"
    /\ lock = NoThread
    /\ IF sid \notin DOMAIN procs
       THEN /\ Goto(t, "uninstall_delete", call[t], NoneV)
            /\ UNCHANGED <<procs, os, lock, local>>
       ELSE StopGraceful(t, sid, call[t], "uninstall_wait")
    /\ UNCHANGED <<calls, owner, nextPid, installerVars, registryVars, serde, startup>>

\* mcp_lifecycle.rs lines 131-136 inside uninstall_server: child.wait()
\* returns, the entry and the lock guard drop
UninstallWaitDone(t) ==
    /\ pc[t] = "uninstall_wait"
    /\ HasExited(os[TheValue(local[t]).child])
    /\ lock' = NoThread
    /\ local' = [local EXCEPT ![t] = NoneV]
    /\ Goto(t, "uninstall_delete", call[t], NoneV)
    /\ UNCHANGED <<calls, procs, os, owner, nextPid, installerVars, registryVars, serde, startup>>

\* lines 310-368, the directory stays: a local source, or a path that does
\* not exist; `npm uninstall` (line 320) works inside the directory and its
\* outcome is ignored
UninstallKeepDir(t) ==
    LET m == TheValue(call[t].metadata) IN
    /\ pc[t] = "uninstall_delete"
    /\ \/ m.source_type = "local"
       \/ m.source_type \in {"npm", "github"} /\ m.install_path \notin fs
    /\ Goto(t, "uninstall_meta", call[t], NoneV)
    /\ UNCHANGED <<calls, procs, os, owner, nextPid, lock, local, installerVars, registryVars, serde, startup>>

\* lines 337-342, 348-352: remove_dir_all succeeds
UninstallDeleteDir(t) ==
    LET m == TheValue(call[t].metadata) IN
    /\ pc[t] = "uninstall_delete"
    /\ m.source_type \in {"npm", "github"}
    /\ m.install_path \in fs
    /\ fs' = RemoveDirAll(fs, m.install_path)
    /\ Goto(t, "uninstall_meta", call[t], NoneV)
    /\ UNCHANGED <<calls, procs, os, owner, nextPid, lock, local,
                   installs, install_metadata, task, nextInstall, writers, disk, mutex, registryVars, serde, startup>>

\* variant: the metadata record is dropped before the error is returned
UninstallDeleteFail_M(t, e) ==
    LET m == TheValue(call[t].metadata) IN
    /\ pc[t] = "uninstall_delete"
    /\ IF m.source_type \in {"npm", "github"}
       THEN /\ m.install_path \in fs
            /\ Return(t, Err(t, call[t], NoneV, "delete_err", e))
       ELSE /\ m.source_type # "local"
            /\ Return(t, Err(t, call[t], NoneV, "unknown_source",
                             "Unknown installation source type"))
    /\ install_metadata' = MapRemove(install_metadata, call[t].install)
    /\ UNCHANGED <<calls, procs, os, owner, nextPid, lock, local,
                   installs, task, nextInstall, fs, writers, disk, mutex, registryVars, serde, startup>>

\* lines 339-340, 350-351, 365-367: remove_dir_all fails, or the source type
\* is none of the three; `?` and return leave uninstall_server
UninstallDeleteFail(t, e) ==
    LET m == TheValue(call[t].metadata) IN
    /\ pc[t] = "uninstall_delete"
    /\ IF m.source_type \in {"npm", "github"}
       THEN /\ m.install_path \in fs
            /\ Return(t, Err(t, call[t], NoneV, "delete_err", e))
       ELSE /\ m.source_type # "local"
            /\ Return(t, Err(t, call[t], NoneV, "unknown_source",
                             "Unknown installation source type"))
    /\ UNCHANGED <<calls, procs, os, owner, nextPid, lock, local, installerVars, registryVars, serde, startup>>

\* lines 371-374
UninstallRemoveMetadata(t) ==
    /\ pc[t] = "uninstall_meta"
    /\ install_metadata' = MapRemove(install_metadata, call[t].install)
    /\ Goto(t, "uninstall_progress", call[t], NoneV)
    /\ UNCHANGED <<calls, procs, os, owner, nextPid, lock, local,
                   installs, task, nextInstall, fs, writers, disk, mutex, registryVars, serde, startup>>

\* lines 377-384; nothing is ever put into INSTALL_PROCESSES, so the removal
\* from it changes nothing
UninstallRemoveProgress(t) ==
    /\ pc[t] = "uninstall_progress"
    /\ installs' = MapRemove(installs, call[t].install)
    /\ Goto(t, "uninstall_persist", call[t], NoneV)
    /\ UNCHANGED <<calls, procs, os, owner, nextPid, lock, local,
                   install_metadata, task, nextInstall, fs, writers, disk, mutex, registryVars, serde, startup>>

\* lines 387-390: persist_metadata, then Ok
UninstallPersist(t) ==
    /\ pc[t] = "uninstall_persist"
    /\ writers' = writers \cup {Snapshot(install_metadata)}
    /\ Return(t, Ok(t, call[t], NoneV, {}))
    /\ UNCHANGED <<calls, procs, os, owner, nextPid, lock, local,
                   installs, install_metadata, task, nextInstall, fs, disk, mutex, registryVars, serde, startup>>

\* the installer together with the servers uninstall_server may stop
UninstallNext ==
    \/ \E t \in Threads, config \in Configs : InstallCall(t, config)
    \/ \E t \in Threads : InstallReturn(t)
    \/ \E id \in InstallIds : TaskStep(id)
    \/ \E snapshot \in writers : WriterRun(snapshot)
    \/ \E snapshot \in writers : WriterFail(snapshot)
    \/ \E t \in Threads, id \in InstallIds, sid \in ServerIdArgs, stop \in StopFlags :
          UninstallCall(t, id, sid, stop)
    \/ \E t \in Threads : UninstallStop(t)
    \/ \E t \in Threads : UninstallWaitDone(t)
    \/ \E t \in Threads : UninstallKeepDir(t)
    \/ \E t \in Threads : UninstallDeleteDir(t)
    \/ \E t \in Threads, e \in IoErrors : UninstallDeleteFail(t, e)
    \/ \E t \in Threads : UninstallRemoveMetadata(t)
    \/ \E t \in Threads : UninstallRemoveProgress(t)
    \/ \E t \in Threads : UninstallPersist(t)
    \/ \E t \in Threads, id \in ServerIds : StartCall(t, id)
    \/ \E t \in Threads : StartSpawnOk(t)
    \/ \E t \in Threads : StartInsert(t)
    \/ \E p \in Pids, outcome \in ExitOutcomes : ProcExit(p, outcome)

UninstallSpec == Init /\ [][UninstallNext]_vars

\* a thread that runs a command keeps running it whenever it can take its
\* next step; nothing makes a child process exit
ThreadStep(t) ==
    \/ InstallReturn(t)
    \/ UninstallStop(t)
    \/ UninstallWaitDone(t)
    \/ UninstallKeepDir(t)
    \/ UninstallDeleteDir(t)
    \/ \E e \in IoErrors : UninstallDeleteFail(t, e)
    \/ UninstallRemoveMetadata(t)
    \/ UninstallRemoveProgress(t)
    \/ UninstallPersist(t)
    \/ StartSpawnOk(t)
    \/ StartInsert(t)

UninstallLiveSpec ==
    /\ Init /\ [][UninstallNext]_vars
    /\ \A t \in Threads : WF_vars(ThreadStep(t))
    /\ \A id \in InstallIds : WF_vars(TaskStep(id))

\* ------------------------------------------------------------------------
\* The locking of the shared maps: what each operation locks, in order
\* ------------------------------------------------------------------------
LockNames == {"PROCESSES"} \cup MapLocks

Holder(l) == IF l = "PROCESSES" THEN lock ELSE mutex[l]
HeldBy(t) == {l \in LockNames : Holder(l) = t}

Acq(l) == <<"acq", l>>
Rel(l) == <<"rel", l>>

\* one lock window after the other: every guard is dropped (end of the
\* statement, of the block or of the function) before the next lock() call
Sections(ls) ==
    [i \in 1..(2 * Len(ls)) |->
        IF i % 2 = 1 THEN Acq(ls[(i + 1) \div 2]) ELSE Rel(ls[i \div 2])]

\* mcp_lifecycle.rs line 154 (mcp_get_status), line 172 (mcp_list_running),
\* line 110 (mcp_stop_server, the guard lives to line 137)
ProcessesLocks == {Sections(<<"PROCESSES">>)}

\* mcp_start_server: line 66 (mcp_get_status), then line 103 unless it
\* returned early or the spawn failed
StartLocks == {Sections(<<"PROCESSES">>), Sections(<<"PROCESSES", "PROCESSES">>)}

\* mcp_restart_server: lines 142 and 147
RestartLocks == {a \o b : a \in ProcessesLocks, b \in StartLocks \cup {<< >>}}

\* install_server: lines 96 and 114
InstallServerLocks == {Sections(<<"INSTALLS", "INSTALLS">>)}

\* the thread of install_server: do_install and the closure around it.
\* npm and github to the end: lines 140/180, 153/192, 169/211, 123, 176/218;
\* local to the end: lines 224, 240, 123, 247; the tool failed: lines
\* 140/180, 151/190, 104; an early error or a bad local path: lines
\* 140/180/223, 104
DoInstallLocks ==
    {Sections(<<"INSTALLS", "INSTALLS", "INSTALL_METADATA", "INSTALL_METADATA", "INSTALLS">>),
     Sections(<<"INSTALLS", "INSTALL_METADATA", "INSTALL_METADATA", "INSTALLS">>),
     Sections(<<"INSTALLS", "INSTALLS", "INSTALLS">>),
     Sections(<<"INSTALLS", "INSTALLS">>)}

\* get_install_progress (line 255), cancel_install (line 260 through update,
\* line 118), cleanup_install (line 266)
TrackerLocks == {Sections(<<"INSTALLS">>)}

\* get_installation_metadata (line 272), the startup load (lib.rs line 39)
MetadataLocks == {Sections(<<"INSTALL_METADATA">>)}

\* variant: the metadata guard of the lookup is kept until uninstall returns
UninstallLocks_M ==
    {<<Acq("INSTALL_METADATA"), Rel("INSTALL_METADATA")>>,
     <<Acq("INSTALL_METADATA"), Acq("PROCESSES"), Rel("PROCESSES"),
       Acq("INSTALLS"), Rel("INSTALLS"), Rel("INSTALL_METADATA")>>}

\* uninstall_server: line 292; mcp_stop_server (line 305) if asked to stop;
\* then, unless the deletion failed, lines 372, 377, 382 and persist_metadata
\* (line 387, the lock of line 123)
UninstallLocks ==
    {Sections(<<"INSTALL_METADATA">>),
     Sections(<<"INSTALL_METADATA", "PROCESSES">>),
     Sections(<<"INSTALL_METADATA", "INSTALL_METADATA", "INSTALLS",
                "INSTALL_PROCESSES", "INSTALL_METADATA">>),
     Sections(<<"INSTALL_METADATA", "PROCESSES", "INSTALL_METADATA", "INSTALLS",
                "INSTALL_PROCESSES", "INSTALL_METADATA">>)}

\* mcp_registry.rs update_cache (line 159), registry_refresh (line 201)
UpdateCacheLocks == {Sections(<<"CACHE">>)}

\* registry_search (lines 169-170), registry_categories (lines 186-188),
\* registry_popular (line 196): the guard of the is_empty() test is a
\* temporary of the `if` condition and is dropped before update_cache runs
SearchLocks == {Sections(<<"CACHE", "CACHE">>), Sections(<<"CACHE", "CACHE", "CACHE">>)}

LockOps ==
    {"mcp_start_server", "mcp_stop_server", "mcp_restart_server", "mcp_get_status",
     "install_server", "do_install", "cancel_install", "get_installation_metadata",
     "uninstall_server", "registry_refresh", "registry_search"}

LockScripts(op) ==
    CASE op = "mcp_start_server" -> StartLocks
      [] op = "mcp_stop_server" -> ProcessesLocks
      [] op = "mcp_restart_server" -> RestartLocks
      [] op = "mcp_get_status" -> ProcessesLocks
      [] op = "install_server" -> InstallServerLocks
      [] op = "do_install" -> DoInstallLocks
      [] op = "cancel_install" -> TrackerLocks
      [] op = "get_installation_metadata" -> MetadataLocks
      [] op = "uninstall_server" -> UninstallLocks
      [] op = "registry_refresh" -> UpdateCacheLocks
      [] op = "registry_search" -> SearchLocks

LockRequest(op, script) == [op |-> op, script |-> script]

\* a thread (a command's worker, or a background thread) begins an operation
LockCall(t, op, script) ==
    /\ Dispatch(t)
    /\ script \in LockScripts(op)
    /\ Goto(t, "locks", LockRequest(op, script), NoneV)
    /\ UNCHANGED <<procs, os, owner, nextPid, lock, local, installerVars, registryVars, serde, startup>>

\* Mutex::lock: the thread gets the mutex when nobody holds it
LockAcquire(t) ==
    LET l == Head(call[t].script)[2] IN
    /\ pc[t] = "locks"
    /\ Head(call[t].script)[1] = "acq"
    /\ Holder(l) = NoThread
    /\ IF l = "PROCESSES"
       THEN lock' = t /\ mutex' = mutex
       ELSE mutex' = [mutex EXCEPT ![l] = t] /\ lock' = lock
    /\ Goto(t, "locks", LockRequest(call[t].op, Tail(call[t].script)), NoneV)
    /\ UNCHANGED <<calls, procs, os, owner, nextPid, local,
                   installs, install_metadata, task, nextInstall, fs, writers, disk,
                   registryVars, serde, startup>>

\* the guard is dropped; after its last guard the operation returns
LockRelease(t) ==
    LET l == Head(call[t].script)[2] IN
    /\ pc[t] = "locks"
    /\ Head(call[t].script)[1] = "rel"
    /\ IF l = "PROCESSES"
       THEN lock' = NoThread /\ mutex' = mutex
       ELSE mutex' = [mutex EXCEPT ![l] = NoThread] /\ lock' = lock
    /\ IF Tail(call[t].script) = << >>
       THEN Return(t, Ok(t, LockRequest(call[t].op, << >>), NoneV, {}))
       ELSE Goto(t, "locks", LockRequest(call[t].op, Tail(call[t].script)), NoneV)
    /\ UNCHANGED <<calls, procs, os, owner, nextPid, local,
                   installs, install_metadata, task, nextInstall, fs, writers, disk,
                   registryVars, serde, startup>>

LockNext ==
    \/ \E t \in Threads, op \in LockOps, script \in UNION {LockScripts(o) : o \in LockOps} :
          LockCall(t, op, script)
    \/ \E t \in Threads : LockAcquire(t)
    \/ \E t \in Threads : LockRelease(t)

LockSpec == Init /\ [][LockNext]_vars

\* ------------------------------------------------------------------------
\* mcp_registry.rs : strings
\* ------------------------------------------------------------------------
\* A String the registry looks into is the tuple of its characters.  The
\* characters of the model, in the order of their code points: Ord gives
\* the order str::cmp and sort() go by
Alphabet ==
    <<" ", "-", "/", "0", "1", "2", "3", "4", "5", "6", "7", "8", "9", ":",
     "@", "A", "B", "C", "D", "E", "F", "G", "H", "I", "J", "K", "L", "M",
     "N", "O", "P", "Q", "R", "S", "T", "U", "V", "W", "X", "Y", "Z", "a",
     "b", "c", "d", "e", "f", "g", "h", "i", "j", "k", "l", "m", "n", "o",
     "p", "q", "r", "s", "t", "u", "v", "w", "x", "y", "z">>

Ord ==
    [c \in {Alphabet[i] : i \in 1..Len(Alphabet)} |->
        CHOOSE i \in 1..Len(Alphabet) : Alphabet[i] = c]

\* char::to_lowercase / to_uppercase on these characters
LowerOf(c) ==
    IF Ord[c] >= Ord["A"] /\ Ord[c] <= Ord["Z"] THEN Alphabet[Ord[c] + 26] ELSE c
UpperOf(c) ==
    IF Ord[c] >= Ord["a"] /\ Ord[c] <= Ord["z"] THEN Alphabet[Ord[c] - 26] ELSE c

\* Iterator::collect: the sequence with these elements, built once
Collect(s) == << >> \o s

to_lowercase(s) == Collect([i \in 1..Len(s) |-> LowerOf(s[i])])

\* str::contains
contains(s, sub) ==
    \E i \in 0..(Len(s) - Len(sub)) : SubSeq(s, i + 1, i + Len(sub)) = sub

\* str::trim_start_matches: the prefix is removed as often as it is there
RECURSIVE trim_start_matches(_, _)
trim_start_matches(s, prefix) ==
    IF Len(prefix) > 0 /\ Len(s) >= Len(prefix) /\ SubSeq(s, 1, Len(prefix)) = prefix
    THEN trim_start_matches(SubSeq(s, Len(prefix) + 1, Len(s)), prefix)
    ELSE s

\* a < b in the order of str::cmp
RECURSIVE StrLess(_, _)
StrLess(a, b) ==
    IF b = << >> THEN FALSE
    ELSE IF a = << >> THEN TRUE
    ELSE IF Head(a) = Head(b) THEN StrLess(Tail(a), Tail(b))
    ELSE Ord[Head(a)] < Ord[Head(b)]

\* slice::sort_by / sort_by_key: a stable sort.  An element goes behind
\* every element that is less and behind the equal ones that stood before it
StableSort(s, Less(_, _)) ==
    LET pos == Collect([i \in 1..Len(s) |->
                  1 + Cardinality({j \in 1..Len(s) :
                        Less(s[j], s[i]) \/ (~Less(s[i], s[j]) /\ j < i)})])
    IN Collect([k \in 1..Len(s) |-> s[CHOOSE i \in 1..Len(s) : pos[i] = k]])

\* Vec::retain
Retain(s, Keep(_)) == SelectSeq(s, Keep)

\* ------------------------------------------------------------------------
\* mcp_registry.rs : the curated list
\* ------------------------------------------------------------------------
ServerPrefix ==
    <<"@", "m", "o", "d", "e", "l", "c", "o", "n", "t", "e", "x", "t", "p", "r", "o", "t", "o", "c", "o", "l", "/", "s", "e", "r", "v", "e", "r", "-">>

\* lines 34-45: the array `known`
Known ==
    <<ServerPrefix \o <<"f", "i", "l", "e", "s", "y", "s", "t", "e", "m">>,
      ServerPrefix \o <<"g", "i", "t", "h", "u", "b">>,
      ServerPrefix \o <<"p", "o", "s", "t", "g", "r", "e", "s">>,
      ServerPrefix \o <<"s", "q", "l", "i", "t", "e">>,
      ServerPrefix \o <<"s", "l", "a", "c", "k">>,
      ServerPrefix \o <<"b", "r", "a", "v", "e", "-", "s", "e", "a", "r", "c", "h">>,
      ServerPrefix \o <<"p", "u", "p", "p", "e", "t", "e", "e", "r">>,
      ServerPrefix \o <<"m", "e", "m", "o", "r", "y">>,
      ServerPrefix \o <<"f", "e", "t", "c", "h">>,
      ServerPrefix \o <<"g", "o", "o", "g", "l", "e", "-", "m", "a", "p", "s">>>>

ServersHome == <<"https://github.com/modelcontextprotocol/servers">>
ServersTree == <<"https://github.com/modelcontextprotocol/servers/tree/main/src/">>

\* lines 46-49
known_servers ==
    Collect([i \in 1..Len(Known) |->
        LET pkg == Known[i]
            name == trim_start_matches(pkg, ServerPrefix)
        IN [id |-> pkg,
            name |-> <<UpperOf(name[1])>> \o Tail(name),
            description |-> <<"O", "f", "f", "i", "c", "i", "a", "l", " ", "M", "C", "P", " ">> \o name \o <<" ", "s", "e", "r", "v", "e", "r">>,
            source |-> "npm",
            package_name |-> Some(pkg),
            repository |-> NoneV,
            version |-> NoneV,
            author |-> NoneV,
            homepage |-> Some(ServersHome),
            documentation |-> Some(ServersTree \o name),
            tags |-> Some(<<<<"o", "f", "f", "i", "c", "i", "a", "l">>, <<"m", "c", "p">>, name>>),
            downloads |-> NoneV,
            stars |-> NoneV,
            last_updated |-> NoneV,
            verified |-> Some(TRUE)]])

\* ------------------------------------------------------------------------
\* mcp_registry.rs : the live searches
\* ------------------------------------------------------------------------
\* What running a search tool gives: the spawn fails, the tool exits with a
\* failure (whatever it printed), its output is not UTF-8, not JSON or not
\* an array, or it is an array of objects.  A field of an object that is
\* missing or of another type than the code asks for is None
ToolFailures == {"spawn_error", "exit_failure", "not_utf8", "not_json", "not_array"}
ToolFailed(kind, items) == [kind |-> kind, items |-> items]
ToolArray(items) == [kind |-> "array", items |-> items]

NpmPackage(name, description, keywords, date) ==
    [name |-> name, description |-> description, keywords |-> keywords,
     version |-> NoneV, author |-> NoneV, homepage |-> NoneV,
     repository |-> NoneV, date |-> date]

GhRepo(name, login, description, stars) ==
    [name |-> name, owner |-> login, description |-> description,
     url |-> NoneV, stargazersCount |-> stars, updatedAt |-> NoneV]

\* Option::unwrap_or
UnwrapOrElse(opt, default) == IF opt = NoneV THEN default ELSE TheValue(opt)

\* lines 63-65: the package is about MCP
NpmIsMcp(pkg) ==
    \/ contains(TheValue(pkg.name), <<"m", "c", "p">>)
    \/ /\ pkg.keywords # NoneV
       /\ \E i \in 1..Len(TheValue(pkg.keywords)) :
            \/ contains(TheValue(pkg.keywords)[i], <<"m", "c", "p">>)
            \/ contains(TheValue(pkg.keywords)[i], <<"m", "o", "d", "e", "l", "-", "c", "o", "n", "t", "e", "x", "t", "-", "p", "r", "o", "t", "o", "c", "o", "l">>)

\* lines 66-82
NpmEntry(pkg) ==
    LET name == TheValue(pkg.name) IN
    [id |-> name,
     name |-> name,
     description |-> UnwrapOrElse(pkg.description, << >>),
     source |-> "npm",
     package_name |-> Some(name),
     repository |-> NoneV,
     version |-> pkg.version,
     author |-> pkg.author,
     homepage |-> pkg.homepage,
     documentation |-> pkg.repository,
     tags |-> pkg.keywords,
     downloads |-> NoneV,
     stars |-> NoneV,
     last_updated |-> pkg.date,
     verified |-> Some(\E k \in 1..Len(known_servers) : known_servers[k].id = name)]

\* lines 52-89: every way but the array of objects ends in vec![]
\* variant: the exit status of the tool is not looked at
search_npm_M(out) ==
    LET kept == SelectSeq(out.items, LAMBDA pkg : pkg.name # NoneV /\ NpmIsMcp(pkg))
    IN Collect([i \in 1..Len(kept) |-> NpmEntry(kept[i])])
search_npm(out) ==
    IF out.kind = "array"
    THEN LET kept == SelectSeq(out.items, LAMBDA pkg : pkg.name # NoneV /\ NpmIsMcp(pkg))
         IN Collect([i \in 1..Len(kept) |-> NpmEntry(kept[i])])
    ELSE << >>

\* lines 112-119
GhIsMcp(repo) ==
    LET name_lower == to_lowercase(TheValue(repo.name))
        desc_lower == to_lowercase(UnwrapOrElse(repo.description, << >>))
    IN \/ contains(name_lower, <<"m", "c", "p">>)
       \/ contains(desc_lower, <<"m", "c", "p">>)
       \/ contains(desc_lower, <<"m", "o", "d", "e", "l", " ", "c", "o", "n", "t", "e", "x", "t", " ", "p", "r", "o", "t", "o", "c", "o", "l">>)

\* lines 121-137
GhEntry(repo) ==
    LET name == TheValue(repo.name)
        login == TheValue(repo.owner)
        full_name == login \o <<"/">> \o name
    IN [id |-> full_name,
        name |-> name,
        description |-> UnwrapOrElse(repo.description, << >>),
        source |-> "github",
        package_name |-> NoneV,
        repository |-> Some(full_name),
        version |-> NoneV,
        author |-> Some(login),
        homepage |-> repo.url,
        documentation |-> repo.url,
        tags |-> Some(<<<<"g", "i", "t", "h", "u", "b">>, <<"m", "c", "p">>>>),
        downloads |-> NoneV,
        stars |-> repo.stargazersCount,
        last_updated |-> repo.updatedAt,
        verified |-> Some(FALSE)]

\* lines 91-151
search_github(out) ==
    IF out.kind = "array"
    THEN LET kept == SelectSeq(out.items,
                        LAMBDA repo : repo.name # NoneV /\ repo.owner # NoneV /\ GhIsMcp(repo))
         IN Collect([i \in 1..Len(kept) |-> GhEntry(kept[i])])
    ELSE << >>

\* lines 160-162: list.retain(|e| seen.insert(e.id.clone())) keeps the first
\* entry of every id
\* variant: nothing is dropped
Dedup_M(list) == list
Dedup(list) ==
    LET marked == Collect([i \in 1..Len(list) |->
                     [e |-> list[i],
                      first |-> \A j \in 1..(i - 1) : list[j].id # list[i].id]])
        kept == SelectSeq(marked, LAMBDA x : x.first)
    IN Collect([k \in 1..Len(kept) |-> kept[k].e])

\* ------------------------------------------------------------------------
\* mcp_registry.rs : registry_search and registry_categories on the cache
\* ------------------------------------------------------------------------
Filters(query, source, verified, sort_by, limit, offset) ==
    [query |-> query, source |-> source, tags |-> NoneV, verified |-> verified,
     sort_by |-> sort_by, limit |-> limit, offset |-> offset]

\* variant: the query is not tried on the tags
MatchesQuery_M(s, query) ==
    LET q == to_lowercase(query) IN
    \/ contains(to_lowercase(s.name), q)
    \/ contains(to_lowercase(s.description), q)

\* line 171: the query against name, description and tags, all in lower case
MatchesQuery(s, query) ==
    LET q == to_lowercase(query) IN
    \/ contains(to_lowercase(s.name), q)
    \/ contains(to_lowercase(s.description), q)
    \/ /\ s.tags # NoneV
       /\ \E i \in 1..Len(TheValue(s.tags)) : contains(to_lowercase(TheValue(s.tags)[i]), q)

\* line 172: a source filter that names none of the three keeps nothing
MatchesSource(s, src) == src \in {"npm", "github", "local"} /\ s.source = src

\* line 175
Sorted(results, sort_by) ==
    IF sort_by = Some("downloads")
    THEN StableSort(results, LAMBDA a, b :
             UnwrapOrElse(a.downloads, 0) > UnwrapOrElse(b.downloads, 0))
    ELSE IF sort_by = Some("stars")
    THEN StableSort(results, LAMBDA a, b :
             UnwrapOrElse(a.stars, 0) > UnwrapOrElse(b.stars, 0))
    ELSE IF sort_by = Some("updated")
    THEN StableSort(results, LAMBDA a, b :
             StrLess(UnwrapOrElse(b.last_updated, << >>), UnwrapOrElse(a.last_updated, << >>)))
    ELSE StableSort(results, LAMBDA a, b : StrLess(a.name, b.name))

\* lines 171-175: what is left of the cache, in the order asked for
Matching(list, filters) ==
    LET r1 == IF filters.query # NoneV
              THEN SelectSeq(list, LAMBDA s : MatchesQuery(s, TheValue(filters.query)))
              ELSE list
        r2 == IF filters.source # NoneV
              THEN SelectSeq(r1, LAMBDA s : MatchesSource(s, TheValue(filters.source)))
              ELSE r1
        r3 == IF filters.verified # NoneV
              THEN SelectSeq(r2, LAMBDA s : UnwrapOrElse(s.verified, FALSE) = TheValue(filters.verified))
              ELSE r2
    IN Sorted(r3, filters.sort_by)

\* line 179: the page
\* variant: the page ends one entry early
Slice_M(results, offset, limit) ==
    IF offset < Len(results)
    THEN LET end == IF offset + limit < Len(results) THEN offset + limit ELSE Len(results)
         IN SubSeq(results, offset + 1, end - 1)
    ELSE << >>
Slice(results, offset, limit) ==
    IF offset < Len(results)
    THEN LET end == IF offset + limit < Len(results) THEN offset + limit ELSE Len(results)
         IN SubSeq(results, offset + 1, end)
    ELSE << >>

\* variant: has_more also when the page ends with the last entry
registry_search_M(list, filters) ==
    LET results == Matching(list, filters)
        total == Len(results)
        offset == UnwrapOrElse(filters.offset, 0)
        limit == UnwrapOrElse(filters.limit, 20)
    IN [page |-> Slice(results, offset, limit),
        total |-> total,
        has_more |-> (offset + limit) <= total]

\* lines 170-181
registry_search(list, filters) ==
    LET results == Matching(list, filters)
        total == Len(results)
        offset == UnwrapOrElse(filters.offset, 0)
        limit == UnwrapOrElse(filters.limit, 20)
    IN [page |-> Slice(results, offset, limit),
        total |-> total,
        has_more |-> (offset + limit) < total]

\* line 191: the elements of a set in ascending order
SortedVec(set) ==
    Collect([k \in 1..Cardinality(set) |->
        CHOOSE e \in set : Cardinality({f \in set : StrLess(f, e)}) = k - 1])

RECURSIVE AllTags(_)
AllTags(list) ==
    IF list = << >> THEN << >>
    ELSE UnwrapOrElse(Head(list).tags, << >>) \o AllTags(Tail(list))

\* lines 187-191: the tags go through a HashSet and are sorted
\* variant: the tags as they come
registry_categories_M(list) == AllTags(list)
registry_categories(list) ==
    SortedVec({AllTags(list)[i] : i \in 1..Len(AllTags(list))})

\* ------------------------------------------------------------------------
\* mcp_registry.rs : the commands
\* ------------------------------------------------------------------------
\* outputs of `npm search mcp-server --json --long`
NpmOutputs ==
    LET mcp == NpmPackage(Some(<<"m", "c", "p">>), NoneV, NoneV, Some(<<"2">>))
        fetch == NpmPackage(Some(Known[9]), Some(<<"x">>), Some(<<<<"m", "c", "p">>>>), Some(<<"1">>))
        upper == NpmPackage(Some(<<"Z", "m", "c", "p">>), NoneV, Some(<<<<"b">>, <<"A">>>>), NoneV)
        other == NpmPackage(Some(<<"a">>), NoneV, Some(<<<<"b">>>>), NoneV)
        noname == NpmPackage(NoneV, Some(<<"m", "c", "p">>), NoneV, NoneV)
    IN {ToolFailed(k, << >>) : k \in ToolFailures}
       \cup {ToolFailed("exit_failure", <<mcp>>)}
       \cup {ToolArray(items) :
               items \in {<< >>, <<mcp, mcp>>, <<fetch, other, upper>>, <<noname>>}}

\* outputs of `gh search repos ... --json ... --limit 50`
GhOutputs ==
    LET mcp == GhRepo(Some(<<"M", "C", "P">>), Some(<<"o">>), NoneV, Some(5))
        again == GhRepo(Some(<<"M", "C", "P">>), Some(<<"o">>), Some(<<"x">>), Some(7))
        other == GhRepo(Some(<<"x">>), Some(<<"o">>), NoneV, NoneV)
        noowner == GhRepo(Some(<<"m", "c", "p">>), NoneV, NoneV, NoneV)
    IN {ToolFailed(k, << >>) : k \in ToolFailures}
       \cup {ToolArray(items) :
               items \in {<< >>, <<mcp>>, <<mcp, again>>, <<other, noowner>>}}

NoFilters == Filters(NoneV, NoneV, NoneV, NoneV, NoneV, NoneV)

\* the filters registry_search is called with while the cache is rebuilt
RegistryFilters ==
    {NoFilters, Filters(NoneV, Some("npm"), Some(TRUE), Some("stars"), Some(2), Some(9))}

\* a registry command under way: `list` of update_cache and how the two
\* searches went
RegistryRequest(op, filters) ==
    [op |-> op, filters |-> filters, list |-> << >>,
     npm |-> "pending", github |-> "pending"]

\* the command as its result names it: `list` is gone when it returns
Returned(c) == [c EXCEPT !.list = << >>]

\* where a command goes on once the cache is there
AfterUpdate(op) ==
    IF op = "registry_search" THEN "search_read" ELSE "categories_read"

\* line 201: registry_refresh
RefreshCall(t) ==
    /\ Dispatch(t)
    /\ Goto(t, "update_npm", RegistryRequest("registry_refresh", NoFilters), NoneV)
    /\ UNCHANGED <<procs, os, owner, nextPid, lock, local, installerVars, registryVars, serde, startup>>

\* line 169: registry_search looks whether the cache is empty
SearchCall(t, filters) ==
    /\ Dispatch(t)
    /\ mutex["CACHE"] = NoThread
    /\ Goto(t, IF cache = << >> THEN "update_npm" ELSE "search_read",
            RegistryRequest("registry_search", filters), NoneV)
    /\ UNCHANGED <<procs, os, owner, nextPid, lock, local, installerVars, registryVars, serde, startup>>

\* line 186: registry_categories looks whether the cache is empty
CategoriesCall(t) ==
    /\ Dispatch(t)
    /\ mutex["CACHE"] = NoThread
    /\ Goto(t, IF cache = << >> THEN "update_npm" ELSE "categories_read",
            RegistryRequest("registry_categories", NoFilters), NoneV)
    /\ UNCHANGED <<procs, os, owner, nextPid, lock, local, installerVars, registryVars, serde, startup>>

\* variant: the package search comes first in the list
UpdateNpm_M(t, out) ==
    /\ pc[t] = "update_npm"
    /\ Goto(t, "update_github",
            [call[t] EXCEPT !.list = search_npm(out) \o known_servers,
                            !.npm = IF out.kind = "array" THEN "ok" ELSE "failed"],
            NoneV)
    /\ UNCHANGED <<calls, procs, os, owner, nextPid, lock, local, installerVars, registryVars, serde, startup>>

\* update_cache, lines 154-156: the curated list and the package search
UpdateNpm(t, out) ==
    /\ pc[t] = "update_npm"
    /\ Goto(t, "update_github",
            [call[t] EXCEPT !.list = known_servers \o search_npm(out),
                            !.npm = IF out.kind = "array" THEN "ok" ELSE "failed"],
            NoneV)
    /\ UNCHANGED <<calls, procs, os, owner, nextPid, lock, local, installerVars, registryVars, serde, startup>>

\* update_cache, lines 157-158: the repository search
UpdateGithub(t, out) ==
    /\ pc[t] = "update_github"
    /\ Goto(t, "update_store",
            [call[t] EXCEPT !.list = call[t].list \o search_github(out),
                            !.github = IF out.kind = "array" THEN "ok" ELSE "failed"],
            NoneV)
    /\ UNCHANGED <<calls, procs, os, owner, nextPid, lock, local, installerVars, registryVars, serde, startup>>

\* update_cache, lines 159-164: under the lock the list is de-duplicated and
\* put in the place of the cache
UpdateStore(t) ==
    /\ pc[t] = "update_store"
    /\ mutex["CACHE"] = NoThread
    /\ cache' = Dedup(call[t].list)
    /\ IF call[t].op = "registry_refresh"
       THEN Return(t, Ok(t, Returned(call[t]), NoneV, {}))
       ELSE Goto(t, AfterUpdate(call[t].op), Returned(call[t]), NoneV)
    /\ UNCHANGED <<calls, procs, os, owner, nextPid, lock, local, installerVars, pages, serde, startup>>

\* registry_search, lines 170-181, on a clone of the cache
SearchRead(t) ==
    /\ pc[t] = "search_read"
    /\ mutex["CACHE"] = NoThread
    /\ Return(t, Ok(t, call[t], NoneV, {registry_search(cache, call[t].filters)}))
    /\ UNCHANGED <<calls, procs, os, owner, nextPid, lock, local, installerVars, registryVars, serde, startup>>

\* registry_categories, lines 187-191
CategoriesRead(t) ==
    /\ pc[t] = "categories_read"
    /\ mutex["CACHE"] = NoThread
    /\ Return(t, Ok(t, call[t], NoneV, {registry_categories(cache)}))
    /\ UNCHANGED <<calls, procs, os, owner, nextPid, lock, local, installerVars, registryVars, serde, startup>>

RegistryNext ==
    \/ \E t \in Threads : RefreshCall(t)
    \/ \E t \in Threads, filters \in RegistryFilters : SearchCall(t, filters)
    \/ \E t \in Threads : CategoriesCall(t)
    \/ \E t \in Threads, out \in NpmOutputs : UpdateNpm(t, out)
    \/ \E t \in Threads, out \in GhOutputs : UpdateGithub(t, out)
    \/ \E t \in Threads : UpdateStore(t)
    \/ \E t \in Threads : SearchRead(t)
    \/ \E t \in Threads : CategoriesRead(t)

RegistrySpec == Init /\ [][RegistryNext]_vars

\* ------------------------------------------------------------------------
\* registry_search on a cache that stays as it is: a client reads page
\* after page
\* ------------------------------------------------------------------------
\* the caches update_cache builds from the outputs of the searches
\* an output of `gh search repos` with repositories of different star counts
StarredRepos ==
    ToolArray(<<GhRepo(Some(<<"m", "c", "p", "-", "b">>), Some(<<"o">>), NoneV, Some(3)),
                GhRepo(Some(<<"m", "c", "p", "-", "a">>), Some(<<"o">>), NoneV, Some(9)),
                GhRepo(Some(<<"m", "c", "p", "-", "c">>), Some(<<"o">>), NoneV, NoneV),
                GhRepo(Some(<<"M", "c", "p">>), Some(<<"p">>), Some(<<"S", "q">>), Some(3))>>)

PagingCaches ==
    {Dedup(known_servers \o search_npm(npm) \o search_github(github)) :
        npm \in NpmOutputs, github \in GhOutputs \cup {StarredRepos}}

PagingFilters ==
    {Filters(query, source, verified, sort_by, limit, offset) :
        query \in {NoneV, Some(<<"S", "Q">>), Some(<<"b">>)},
        source \in {NoneV, Some("npm"), Some("github"), Some("other")},
        verified \in {NoneV, Some(TRUE), Some(FALSE)},
        sort_by \in {NoneV, Some("downloads"), Some("stars"), Some("updated"), Some("name")},
        limit \in {NoneV, Some(0), Some(1), Some(3)},
        offset \in {NoneV, Some(2), Some(12), Some(13)}}

\* the cache has been rebuilt and a registry_search has found it non-empty
PagingInit ==
    \E list \in PagingCaches, filters \in PagingFilters :
        /\ procs = << >>
        /\ os = [p \in Pids |-> OsUnborn]
        /\ owner = << >>
        /\ nextPid = 1
        /\ lock = NoThread
        /\ calls = 1
        /\ pc = [t \in Threads |-> IF t = "t1" THEN "search_read" ELSE "idle"]
        /\ call = [t \in Threads |->
                     IF t = "t1" THEN RegistryRequest("registry_search", filters)
                     ELSE NoCall]
        /\ local = [t \in Threads |-> NoneV]
        /\ pre = [t \in Threads |-> NoneV]
        /\ ret = NoResult
        /\ installs = << >>
        /\ install_metadata = << >>
        /\ task = << >>
        /\ nextInstall = 1
        /\ fs = {AppDataDir, UserDir}
        /\ writers = {}
        /\ disk = {}
        /\ mutex = [l \in MapLocks |-> NoThread]
        /\ cache = list
        /\ pages = << >>
        /\ serde = NoSerde
        /\ startup = LoadDone

\* the client keeps the page it got and asks for the next one: the same
\* filters, the offset moved on by the limit
NextPage(t) ==
    /\ pc[t] = "idle"
    /\ ret.kind = "ok"
    /\ ret.thread = t
    /\ ret.call.op = "registry_search"
    /\ TheValue(ret.val).has_more
    /\ UnwrapOrElse(ret.call.filters.limit, 20) >= 1
    /\ pages' = Append(pages, [offset |-> UnwrapOrElse(ret.call.filters.offset, 0),
                               page |-> TheValue(ret.val).page])
    /\ Goto(t, "search_read",
            [ret.call EXCEPT !.filters.offset =
                Some(UnwrapOrElse(ret.call.filters.offset, 0)
                     + UnwrapOrElse(ret.call.filters.limit, 20))],
            NoneV)
    /\ UNCHANGED <<calls, procs, os, owner, nextPid, lock, local, installerVars, cache, serde, startup>>

PagingNext ==
    \/ \E t \in Threads : SearchRead(t)
    \/ \E t \in Threads : NextPage(t)

PagingSpec == PagingInit /\ [][PagingNext]_vars

\* ------------------------------------------------------------------------
\* cleanup_install and get_install_progress next to two installs under way
\* ------------------------------------------------------------------------
\* install_server has returned twice: two Pending records, two threads
\* about to begin
CleanupInit ==
    \E c1 \in Configs, c2 \in Configs :
        /\ procs = << >>
        /\ os = [p \in Pids |-> OsUnborn]
        /\ owner = << >>
        /\ nextPid = 1
        /\ lock = NoThread
        /\ calls = 0
        /\ pc = [t \in Threads |-> "idle"]
        /\ call = [t \in Threads |-> NoCall]
        /\ local = [t \in Threads |-> NoneV]
        /\ pre = [t \in Threads |-> NoneV]
        /\ ret = NoResult
        /\ installs = <<InitialProgress(1, 0), InitialProgress(2, 1)>>
        /\ install_metadata = << >>
        /\ task = <<[pc |-> "begin", config |-> c1, err |-> NoneV, exit |-> NoneV],
                    [pc |-> "begin", config |-> c2, err |-> NoneV, exit |-> NoneV]>>
        /\ nextInstall = 3
        /\ fs = {AppDataDir, UserDir}
        /\ writers = {}
        /\ disk = {}
        /\ mutex = [l \in MapLocks |-> NoThread]
        /\ cache = << >>
        /\ pages = << >>
        /\ serde = NoSerde
        /\ startup = LoadDone

CleanupNext ==
    \/ \E t \in Threads, id \in DOMAIN task : GetProgressCall(t, id)
    \/ \E t \in Threads, id \in DOMAIN task : CleanupCall(t, id)
    \/ \E id \in DOMAIN task : TaskStep(id)
    \/ \E snapshot \in writers : WriterRun(snapshot)
    \/ \E snapshot \in writers : WriterFail(snapshot)

CleanupSpec == CleanupInit /\ [][CleanupNext]_vars

\* ------------------------------------------------------------------------
\* serde: the derived Serialize and Deserialize of the records and enums
\* ------------------------------------------------------------------------
\* A JSON document as serde_json writes and reads it
JNull == [j |-> "null"]
JString(s) == [j |-> "string", s |-> s]
\* a number is written with a fraction part exactly when it is a float
JNumber(int, frac) == [j |-> "number", int |-> int, frac |-> frac]
JArray(items) == [j |-> "array", items |-> items]
JObject(members) == [j |-> "object", members |-> members]

\* the Rust types of the fields
TString == [t |-> "String"]
TU8 == [t |-> "u8"]
TU32 == [t |-> "u32"]
TU64 == [t |-> "u64"]
TF32 == [t |-> "f32"]
OptionOf(ty) == [t |-> "Option", of |-> ty]
VecOf(ty) == [t |-> "Vec", of |-> ty]
EnumOf(name, variants) == [t |-> "enum", name |-> name, variants |-> variants]
StructOf(name, fields) == [t |-> "struct", name |-> name, fields |-> fields]

\* an f32: a finite value with one decimal, or NaN or an infinity
F32(int, frac) == [class |-> "finite", int |-> int, frac |-> frac]
NonFinite(class) == [class |-> class]

\* the identifiers of the variants, letter by letter
VariantChars ==
    [Stopped |-> <<"S", "t", "o", "p", "p", "e", "d">>,
     Starting |-> <<"S", "t", "a", "r", "t", "i", "n", "g">>,
     Running |-> <<"R", "u", "n", "n", "i", "n", "g">>,
     Stopping |-> <<"S", "t", "o", "p", "p", "i", "n", "g">>,
     Restarting |-> <<"R", "e", "s", "t", "a", "r", "t", "i", "n", "g">>,
     Error |-> <<"E", "r", "r", "o", "r">>,
     Pending |-> <<"P", "e", "n", "d", "i", "n", "g">>,
     Downloading |-> <<"D", "o", "w", "n", "l", "o", "a", "d", "i", "n", "g">>,
     Installing |-> <<"I", "n", "s", "t", "a", "l", "l", "i", "n", "g">>,
     Configuring |-> <<"C", "o", "n", "f", "i", "g", "u", "r", "i", "n", "g">>,
     Completed |-> <<"C", "o", "m", "p", "l", "e", "t", "e", "d">>,
     Failed |-> <<"F", "a", "i", "l", "e", "d">>,
     Cancelled |-> <<"C", "a", "n", "c", "e", "l", "l", "e", "d">>]

\* variant: the variant is written under its identifier as declared
rename_all_M(variant) == VariantChars[variant]

\* #[serde(rename_all = "lowercase")]: the name a variant is written under
rename_all(variant) == to_lowercase(VariantChars[variant])

LifecycleState ==
    EnumOf("LifecycleState",
           {"Stopped", "Starting", "Running", "Stopping", "Restarting", "Error"})
InstallationStatus ==
    EnumOf("InstallationStatus",
           {"Pending", "Downloading", "Installing", "Configuring", "Completed",
            "Failed", "Cancelled"})
MCPServerProcess ==
    StructOf("MCPServerProcess",
             [server_id |-> TString, pid |-> OptionOf(TU32), state |-> LifecycleState,
              started_at |-> OptionOf(TString), stopped_at |-> OptionOf(TString),
              restart_count |-> TU32, last_error |-> OptionOf(TString),
              memory_usage |-> OptionOf(TU64), cpu_usage |-> OptionOf(TF32),
              uptime |-> OptionOf(TU64), output |-> OptionOf(TString)])
InstallationProgress ==
    StructOf("InstallationProgress",
             [install_id |-> TString, status |-> InstallationStatus, progress |-> TU8,
              message |-> TString, current_step |-> OptionOf(TString),
              total_steps |-> OptionOf(TU32), current_step_number |-> OptionOf(TU32),
              started_at |-> TString, completed_at |-> OptionOf(TString),
              error |-> OptionOf(TString), logs |-> OptionOf(VecOf(TString))])
InstallMetadata ==
    StructOf("InstallMetadata",
             [server_id |-> TString, install_id |-> TString, source_type |-> TString,
              install_path |-> TString, package_name |-> OptionOf(TString),
              repository |-> OptionOf(TString), version |-> OptionOf(TString),
              installed_at |-> TString, client_type |-> OptionOf(TString),
              original_config |-> OptionOf(TString),
              config_source_path |-> OptionOf(TString)])

\* serde_json::to_string: every field is written, None as null, a float that
\* is not finite as null
RECURSIVE Serialize(_, _)
Serialize(ty, v) ==
    CASE ty.t = "String" -> JString(v)
      [] ty.t \in {"u8", "u32", "u64"} -> JNumber(v, NoneV)
      [] ty.t = "f32" -> IF v.class = "finite" THEN JNumber(v.int, Some(v.frac))
                         ELSE JNull
      [] ty.t = "Option" -> IF v = NoneV THEN JNull ELSE Serialize(ty.of, TheValue(v))
      [] ty.t = "Vec" -> JArray(Collect([i \in 1..Len(v) |-> Serialize(ty.of, v[i])]))
      [] ty.t = "enum" -> JString(rename_all(v))
      [] ty.t = "struct" ->
           JObject([k \in DOMAIN ty.fields |-> Serialize(ty.fields[k], v[k])])

Parsed(v) == [ok |-> TRUE, v |-> v]
ParseError == [ok |-> FALSE]

\* serde_json::from_str: an Option takes null and, as a field, being absent
\* for None; a field of another type must be there; an unsigned integer
\* takes no fraction and no value out of its range (the numbers of the model
\* stay far below 2^32); an enum takes the names of its variants only;
\* members the struct does not name are skipped
RECURSIVE Deserialize(_, _)
Deserialize(ty, doc) ==
    CASE ty.t = "String" -> IF doc.j = "string" THEN Parsed(doc.s) ELSE ParseError
      [] ty.t \in {"u8", "u32", "u64"} ->
           IF /\ doc.j = "number"
              /\ doc.frac = NoneV
              /\ doc.int >= 0
              /\ (ty.t = "u8" => doc.int <= 255)
           THEN Parsed(doc.int) ELSE ParseError
      [] ty.t = "f32" ->
           IF doc.j = "number"
           THEN Parsed(F32(doc.int, IF doc.frac = NoneV THEN 0 ELSE TheValue(doc.frac)))
           ELSE ParseError
      [] ty.t = "Option" ->
           IF doc = JNull THEN Parsed(NoneV)
           ELSE LET inner == Deserialize(ty.of, doc)
                IN IF inner.ok THEN Parsed(Some(inner.v)) ELSE ParseError
      [] ty.t = "Vec" ->
           IF doc.j = "array"
           THEN LET items == Collect([i \in 1..Len(doc.items) |->
                                        Deserialize(ty.of, doc.items[i])])
                IN IF \A i \in 1..Len(items) : items[i].ok
                   THEN Parsed(Collect([i \in 1..Len(items) |-> items[i].v]))
                   ELSE ParseError
           ELSE ParseError
      [] ty.t = "enum" ->
           IF doc.j = "string" /\ \E v \in ty.variants : rename_all(v) = doc.s
           THEN Parsed(CHOOSE v \in ty.variants : rename_all(v) = doc.s)
           ELSE ParseError
      [] ty.t = "struct" ->
           IF doc.j = "object"
           THEN LET got == [k \in DOMAIN ty.fields |->
                              IF k \in DOMAIN doc.members
                              THEN Deserialize(ty.fields[k], doc.members[k])
                              ELSE IF ty.fields[k].t = "Option" THEN Parsed(NoneV)
                              ELSE ParseError]
                IN IF \A k \in DOMAIN ty.fields : got[k].ok
                   THEN Parsed([k \in DOMAIN ty.fields |-> got[k].v])
                   ELSE ParseError
           ELSE ParseError

\* the values of the unit tests and of the commands: snapshots of processes
Texts == {<<"a">>, <<"A", " ", "b">>}
OptionalText == {NoneV, Some(<<"a">>)}
SerdeProcesses ==
    {[server_id |-> <<"s">>, pid |-> pid, state |-> state, started_at |-> at,
      stopped_at |-> NoneV, restart_count |-> restarts, last_error |-> error,
      memory_usage |-> usage[1], cpu_usage |-> usage[2], uptime |-> uptime,
      output |-> usage[3]] :
        pid \in {NoneV, Some(12345)}, state \in LifecycleState.variants,
        at \in OptionalText, restarts \in {0, 2}, error \in OptionalText,
        usage \in {<<NoneV, NoneV, NoneV>>,
                   <<Some(1024000), Some(F32(5, 5)), Some(<<"A", " ", "b">>)>>},
        uptime \in {NoneV, Some(3600)}}
\* progress records
SerdeProgress ==
    {[install_id |-> <<"i">>, status |-> status, progress |-> progress,
      message |-> <<"m">>, current_step |-> step[1], total_steps |-> step[2],
      current_step_number |-> step[3], started_at |-> <<"2">>,
      completed_at |-> end[1], error |-> end[2], logs |-> logs] :
        status \in InstallationStatus.variants, progress \in {0, 50, 255},
        step \in {<<NoneV, NoneV, NoneV>>, <<Some(<<"a">>), Some(3), Some(1)>>,
                  <<Some(<<"a">>), NoneV, Some(2)>>},
        end \in {<<NoneV, NoneV>>, <<Some(<<"3">>), NoneV>>,
                 <<Some(<<"3">>), Some(<<"E">>)>>},
        logs \in {NoneV, Some(<< >>), Some(<<<<"l">>, <<"l", "2">>>>)}}
\* metadata records
SerdeMetadata ==
    {[server_id |-> <<"s">>, install_id |-> <<"i">>, source_type |-> source,
      install_path |-> <<"/", "p">>, package_name |-> package,
      repository |-> repository, version |-> version, installed_at |-> <<"2">>,
      client_type |-> client, original_config |-> original,
      config_source_path |-> NoneV] :
        source \in {<<"n", "p", "m">>, <<"g", "i", "t", "h", "u", "b">>},
        package \in OptionalText, repository \in OptionalText,
        version \in OptionalText, client \in OptionalText,
        original \in {NoneV, Some(<<":", " ", "1">>)}}

SerdeValues ==
    {[type |-> MCPServerProcess, value |-> v] : v \in SerdeProcesses}
    \cup {[type |-> InstallationProgress, value |-> v] : v \in SerdeProgress}
    \cup {[type |-> InstallMetadata, value |-> v] : v \in SerdeMetadata}
    \cup {[type |-> LifecycleState, value |-> v] : v \in LifecycleState.variants}
    \cup {[type |-> InstallationStatus, value |-> v] :
            v \in InstallationStatus.variants}

SerdeInit ==
    \E input \in SerdeValues :
        /\ procs = << >>
        /\ os = [p \in Pids |-> OsUnborn]
        /\ owner = << >>
        /\ nextPid = 1
        /\ lock = NoThread
        /\ calls = 0
        /\ pc = [t \in Threads |-> "idle"]
        /\ call = [t \in Threads |-> NoCall]
        /\ local = [t \in Threads |-> NoneV]
        /\ pre = [t \in Threads |-> NoneV]
        /\ ret = NoResult
        /\ installs = << >>
        /\ install_metadata = << >>
        /\ task = << >>
        /\ nextInstall = 1
        /\ fs = {AppDataDir, UserDir}
        /\ writers = {}
        /\ disk = {}
        /\ mutex = [l \in MapLocks |-> NoThread]
        /\ cache = << >>
        /\ pages = << >>
        /\ serde = [stage |-> "value", type |-> input.type, value |-> input.value]
        /\ startup = LoadDone

\* serde_json::to_string(&value)
to_string ==
    /\ serde.stage = "value"
    /\ serde' = [stage |-> "json", type |-> serde.type, value |-> serde.value,
                 json |-> Serialize(serde.type, serde.value)]
    /\ UNCHANGED <<calls, pc, call, ret, lifecycleVars, installerVars, registryVars, startup>>

\* serde_json::from_str(&json)
from_str ==
    /\ serde.stage = "json"
    /\ serde' = [stage |-> "back", type |-> serde.type, value |-> serde.value,
                 json |-> serde.json,
                 back |-> Deserialize(serde.type, serde.json)]
    /\ UNCHANGED <<calls, pc, call, ret, lifecycleVars, installerVars, registryVars, startup>>

SerdeNext == to_string \/ from_str

SerdeSpec == SerdeInit /\ [][SerdeNext]_vars

\* ------------------------------------------------------------------------
\* lib.rs : the load of the metadata document when the application starts
\* ------------------------------------------------------------------------
\* a record written by an earlier run of the application
StoredRecord(id, source_type, path, package) ==
    [server_id |-> id, install_id |-> id, source_type |-> source_type,
     install_path |-> path, package_name |-> package, repository |-> NoneV,
     version |-> NoneV, installed_at |-> 0, client_type |-> Some("mcp-hub"),
     original_config |-> NoneV, config_source_path |-> NoneV]

\* the document an earlier run left: an npm install of that run, and a
\* record of a source type uninstall_server does not know, as
\* save_installation_metadata accepts it from the front end
StoredDocument ==
    {StoredRecord(0, "npm", TargetDir(NpmConfig(<<"b">>, FALSE)), Some(<<"b">>)),
     StoredRecord(-1, "remote", <<"home", "remote">>, NoneV)}

StoredIds == {r.install_id : r \in StoredDocument}

\* the application starts: the maps are empty, the document and the
\* directories of the earlier run are on disk, the load task is spawned
StartupInit ==
    /\ procs = << >>
    /\ os = [p \in Pids |-> OsUnborn]
    /\ owner = << >>
    /\ nextPid = 1
    /\ lock = NoThread
    /\ calls = 0
    /\ pc = [t \in Threads |-> "idle"]
    /\ call = [t \in Threads |-> NoCall]
    /\ local = [t \in Threads |-> NoneV]
    /\ pre = [t \in Threads |-> NoneV]
    /\ ret = NoResult
    /\ installs = << >>
    /\ install_metadata = << >>
    /\ task = << >>
    /\ nextInstall = 1
    /\ fs = {AppDataDir, UserDir} \cup {r.install_path : r \in StoredDocument}
    /\ writers = {}
    /\ disk = StoredDocument
    /\ mutex = [l \in MapLocks |-> NoThread]
    /\ cache = << >>
    /\ pages = << >>
    /\ serde = NoSerde
    /\ startup = [pc |-> "read", doc |-> {}]

\* lib.rs line 36, storage.rs lines 240-250: the document is read; a missing
\* file reads as the empty array
LoadRead ==
    /\ startup.pc = "read"
    /\ startup' = [pc |-> "insert", doc |-> disk]
    /\ ret' = NoResult
    /\ UNCHANGED <<calls, pc, call, lifecycleVars, installerVars, registryVars, serde>>

\* lib.rs lines 37-46: every record read is inserted under its install id,
\* all under one lock of INSTALL_METADATA
LoadInsert ==
    /\ startup.pc = "insert"
    /\ install_metadata' =
          [k \in DOMAIN install_metadata \cup {r.install_id : r \in startup.doc} |->
              IF \E r \in startup.doc : r.install_id = k
              THEN CHOOSE r \in startup.doc : r.install_id = k
              ELSE install_metadata[k]]
    /\ startup' = LoadDone
    /\ ret' = NoResult
    /\ UNCHANGED <<calls, pc, call, lifecycleVars, installs, task, nextInstall, fs,
                   writers, disk, mutex, registryVars, serde>>

\* the load next to installs and their persistence writes
StartupNext ==
    \/ LoadRead
    \/ LoadInsert
    \/ \E t \in Threads, config \in Configs : InstallCall(t, config)
    \/ \E t \in Threads : InstallReturn(t)
    \/ \E id \in InstallIds : TaskStep(id)
    \/ \E snapshot \in writers : WriterRun(snapshot)
    \/ \E snapshot \in writers : WriterFail(snapshot)

StartupSpec == StartupInit /\ [][StartupNext]_vars

\* the same with uninstall_server of the installs of this run and of the
\* earlier one, no server to stop
StartupUninstallNext ==
    \/ StartupNext
    \/ \E t \in Threads, id \in InstallIds \cup StoredIds, stop \in StopFlags :
          UninstallCall(t, id, NoneV, stop)
    \/ \E t \in Threads : UninstallKeepDir(t)
    \/ \E t \in Threads : UninstallDeleteDir(t)
    \/ \E t \in Threads, e \in IoErrors : UninstallDeleteFail(t, e)
    \/ \E t \in Threads : UninstallRemoveMetadata(t)
    \/ \E t \in Threads : UninstallRemoveProgress(t)
    \/ \E t \in Threads : UninstallPersist(t)

StartupUninstallSpec == StartupInit /\ [][StartupUninstallNext]_vars

\* ------------------------------------------------------------------------
\* Two installs and their uninstall
\* ------------------------------------------------------------------------
\* an npm package installed under its own directory or with global = true,
\* and a local directory
SharingConfigs ==
    {NpmConfig(<<"a">>, FALSE), NpmConfig(<<"a">>, TRUE), LocalConfig(UserDir)}

\* install_server has returned twice, as in CleanupInit
TwoInstallsInit ==
    \E c1 \in SharingConfigs, c2 \in SharingConfigs :
        /\ procs = << >>
        /\ os = [p \in Pids |-> OsUnborn]
        /\ owner = << >>
        /\ nextPid = 1
        /\ lock = NoThread
        /\ calls = 0
        /\ pc = [t \in Threads |-> "idle"]
        /\ call = [t \in Threads |-> NoCall]
        /\ local = [t \in Threads |-> NoneV]
        /\ pre = [t \in Threads |-> NoneV]
        /\ ret = NoResult
        /\ installs = <<InitialProgress(1, 0), InitialProgress(2, 1)>>
        /\ install_metadata = << >>
        /\ task = <<[pc |-> "begin", config |-> c1, err |-> NoneV, exit |-> NoneV],
                    [pc |-> "begin", config |-> c2, err |-> NoneV, exit |-> NoneV]>>
        /\ nextInstall = 3
        /\ fs = {AppDataDir, UserDir}
        /\ writers = {}
        /\ disk = {}
        /\ mutex = [l \in MapLocks |-> NoThread]
        /\ cache = << >>
        /\ pages = << >>
        /\ serde = NoSerde
        /\ startup = LoadDone

\* the two tasks and uninstall_server without a server to stop; the queued
\* persistence writes are left waiting
TwoInstallsNext ==
    \/ \E id \in DOMAIN task : TaskStep(id)
    \/ \E t \in Threads, id \in DOMAIN task : UninstallCall(t, id, NoneV, NoneV)
    \/ \E t \in Threads : UninstallKeepDir(t)
    \/ \E t \in Threads : UninstallDeleteDir(t)
    \/ \E t \in Threads, e \in IoErrors : UninstallDeleteFail(t, e)
    \/ \E t \in Threads : UninstallRemoveMetadata(t)
    \/ \E t \in Threads : UninstallRemoveProgress(t)
    \/ \E t \in Threads : UninstallPersist(t)

TwoInstallsSpec == TwoInstallsInit /\ [][TwoInstallsNext]_vars

\* ------------------------------------------------------------------------
\* Properties of the lifecycle supervisor
\* ------------------------------------------------------------------------
LiveProcessesOf(id) == {p \in DOMAIN owner : owner[p] = id /\ IsRunning(os[p])}

\* C1: in every interleaving of two concurrent mcp_start_server calls for
\* the same id there is never more than one live spawned process of that id.
C1_AtMostOneLiveProcess ==
    \A id \in ServerIds : Cardinality(LiveProcessesOf(id)) <= 1

\* C2: a mcp_start_server call that finds the record of a process that is
\* still alive spawns nothing and returns a snapshot with the pid and
\* started_at of that record, which stays the one record of the id.
C2_IdempotentStart ==
    [][\A t \in Threads, id \in ServerIds :
         (StartCall(t, id) /\ id \in DOMAIN procs /\ IsRunning(os[procs[id].child])) =>
            /\ ret'.kind = "ok"
            /\ Cardinality(ret'.val) = 1
            /\ \A snap \in ret'.val :
                  /\ snap.pid = procs[id].state.pid
                  /\ snap.started_at = procs[id].state.started_at
            /\ nextPid' = nextPid
            /\ os' = os
            /\ pc'[t] = "idle"
            /\ DOMAIN procs' = DOMAIN procs
            /\ procs'[id].child = procs[id].child
            /\ procs'[id].state.pid = procs[id].state.pid
            /\ procs'[id].state.started_at = procs[id].state.started_at]_vars

\* a second start has just returned the record of the live process it found
C2_Witness ==
    /\ ret.call.op = "start"
    /\ ret.kind = "ok"
    /\ ret.pre # NoneV
    /\ \E snap \in ret.val : snap.pid = TheValue(ret.pre).state.pid
    /\ IsRunning(os[TheValue(ret.pre).child])

\* C3: the registry lock is not held while a non-force mcp_stop_server is
\* blocked waiting for its process to exit.
C3_NoLockAcrossWait ==
    \A t \in Threads :
        (pc[t] = "stop_wait" /\ IsRunning(os[TheValue(local[t]).child])) => lock = NoThread

\* C4: when mcp_restart_server for a Running server fails with the
\* missing-configuration error, the record is still in the registry with the
\* same pid and started_at and its process has not been stopped.
C4_FailedRestartKeepsRecord ==
    (ret.kind = "missing_cfg" /\ ret.pre # NoneV /\ TheValue(ret.pre).state.state = "Running") =>
        /\ ret.call.id \in DOMAIN procs
        /\ procs[ret.call.id].state.pid = TheValue(ret.pre).state.pid
        /\ procs[ret.call.id].state.started_at = TheValue(ret.pre).state.started_at
        /\ IsRunning(os[TheValue(ret.pre).child])

\* C5: when mcp_stop_server returns successfully the id has no record;
\* mcp_get_status of an id without record fails with not-found and
\* mcp_list_running returns no id without record; and an id without record
\* gets one only by the insert of a mcp_start_server for that id.
C5_StoppedRecordStaysAbsent ==
    [][/\ (ret'.call.op = "stop" /\ ret'.kind = "ok") => ret'.call.id \notin DOMAIN procs'
       /\ \A id \in ServerIds :
             (id \notin DOMAIN procs /\ id \in DOMAIN procs') =>
                \E t \in Threads : StartInsert(t) /\ call[t].id = id
       /\ \A t \in Threads, id \in ServerIds :
             (GetStatusCall(t, id) /\ id \notin DOMAIN procs) => ret'.kind = "not_found"
       /\ \A t \in Threads :
             ListCall(t) => {r.server_id : r \in ret'.val} = DOMAIN procs]_vars

\* a stop has just returned successfully after removing a record
C5_Witness ==
    /\ ret.call.op = "stop"
    /\ ret.kind = "ok"
    /\ ret.pre # NoneV
    /\ ret.call.id \notin DOMAIN procs

\* C6: mcp_get_status on an existing record reports Running while the
\* process has not exited, Stopped without last_error and with stopped_at
\* after exit code 0, Error with last_error containing the code and with
\* stopped_at after a non-zero exit code.
C6_StatusClassifiesExit ==
    [][\A t \in Threads, id \in ServerIds :
         (GetStatusCall(t, id) /\ id \in DOMAIN procs) =>
            LET status == os[procs[id].child] IN
            /\ ret'.kind = "ok"
            /\ Cardinality(ret'.val) = 1
            /\ \A snap \in ret'.val :
                  /\ IsRunning(status) => snap.state = "Running"
                  /\ (status.st = "exited" /\ status.code = 0) =>
                        /\ snap.state = "Stopped"
                        /\ snap.last_error = NoneV
                        /\ snap.stopped_at # NoneV
                  /\ (status.st = "exited" /\ status.code # 0) =>
                        /\ snap.state = "Error"
                        /\ \E msg \in snap.last_error : msg.code = status.code
                        /\ snap.stopped_at # NoneV]_vars

\* a status call has just reported a non-zero exit
C6_Witness ==
    /\ ret.call.op = "status"
    /\ ret.kind = "ok"
    /\ \E snap \in ret.val :
          /\ snap.state = "Error"
          /\ \E msg \in snap.last_error : msg.code # 0
          /\ snap.stopped_at # NoneV

\* C7 as stated: after mcp_start_server returned a spawn error, the record
\* it had found under the id, if still the one of the id, is as it was.
C7_RecordUntouchedOnSpawnFailure ==
    (/\ ret.kind = "spawn_err"
     /\ ret.pre # NoneV
     /\ ret.call.id \in DOMAIN procs
     /\ procs[ret.call.id].child = TheValue(ret.pre).child)
        => procs[ret.call.id] = TheValue(ret.pre)

\* C7 amended: a failing spawn returns the OS error text and changes no
\* record; the status poll that precedes it creates and removes no record,
\* leaves every other id's record alone and keeps the process handle, pid,
\* started_at and restart_count of the record it refreshes.
C7_SpawnFailureKeepsRecords ==
    [][/\ \A t \in Threads, e \in SpawnErrors :
             StartSpawnFail(t, e) =>
                /\ procs' = procs
                /\ os' = os
                /\ ret'.kind = "spawn_err"
                /\ ret'.err = Some(e)
       /\ \A t \in Threads, id \in ServerIds :
             (StartCall(t, id) \/ (RestartResume(t) /\ call[t].cfg /\ call[t].id = id)) =>
                /\ DOMAIN procs' = DOMAIN procs
                /\ \A k \in DOMAIN procs : k # id => procs'[k] = procs[k]
                /\ id \in DOMAIN procs =>
                      /\ procs'[id].child = procs[id].child
                      /\ procs'[id].started = procs[id].started
                      /\ procs'[id].state.pid = procs[id].state.pid
                      /\ procs'[id].state.started_at = procs[id].state.started_at
                      /\ procs'[id].state.restart_count = procs[id].state.restart_count]_vars

\* a start has just failed to spawn after its poll refreshed the record
C7_Witness ==
    /\ ret.kind = "spawn_err"
    /\ ret.err # NoneV
    /\ ret.pre # NoneV
    /\ ret.call.id \in DOMAIN procs
    /\ procs[ret.call.id].child = TheValue(ret.pre).child
    /\ procs[ret.call.id] # TheValue(ret.pre)

\* C8: mcp_stop_server and mcp_get_status of an id without record fail with
\* not-found and leave the registry, the processes and the lock as they were.
C8_NotFoundChangesNothing ==
    [][\A t \in Threads, id \in ServerIds :
         /\ \A force \in BOOLEAN :
               (StopCall(t, id, force) /\ id \notin DOMAIN procs) =>
                  /\ ret'.kind = "not_found"
                  /\ procs' = procs /\ os' = os /\ lock' = lock /\ pc'[t] = "idle"
         /\ (GetStatusCall(t, id) /\ id \notin DOMAIN procs) =>
                  /\ ret'.kind = "not_found"
                  /\ procs' = procs /\ os' = os /\ lock' = lock /\ pc'[t] = "idle"]_vars

\* a stop of an unknown id has just failed while another id has a record
C8_Witness ==
    /\ ret.call.op = "stop"
    /\ ret.kind = "not_found"
    /\ ret.call.id \notin DOMAIN procs
    /\ DOMAIN procs # {}

\* ------------------------------------------------------------------------
\* Properties of the installer
\* ------------------------------------------------------------------------
\* C9: in every interleaving with the background task, the snapshot
\* install_server returns is the initial one: Pending, progress 0, no
\* completed_at.
C9_InstallReturnsInitialSnapshot ==
    (ret.call.op = "install" /\ ret.kind = "ok") =>
        \A p \in ret.val :
            /\ p.status = "Pending"
            /\ p.progress = 0
            /\ p.completed_at = NoneV

\* C10: cancel_install leaves the background task where it is; the step
\* with which a task ends leaves its own terminal status in the record
\* (Completed after the metadata step, Failed after an error), whatever the
\* status was, and a task that ends Completed has created the metadata record.
C10_CancelDoesNotStopTask ==
    [][/\ \A t \in Threads, id \in InstallIds :
             CancelCall(t, id) => (task' = task /\ install_metadata' = install_metadata)
       /\ \A id \in DOMAIN task :
             (task[id].pc # "done" /\ task'[id].pc = "done" /\ id \in DOMAIN installs') =>
                /\ installs'[id].status \in {"Completed", "Failed"}
                /\ task[id].pc = "complete" => installs'[id].status = "Completed"
                /\ task[id].pc = "failed" => installs'[id].status = "Failed"
                /\ installs'[id].status = "Completed" => id \in DOMAIN install_metadata']_vars

\* a record that was cancelled in flight (it carries the cancel's completion
\* stamp) has been moved on by its task, which has created the metadata
C10_Witness ==
    \E id \in DOMAIN installs :
        /\ installs[id].status \in {"Configuring", "Installing"}
        /\ installs[id].completed_at # NoneV
        /\ id \in DOMAIN install_metadata
        /\ TaskAt(id, "complete")

\* C11: the progress of every record is within 0..100, and a step that
\* lowers the progress of a record leaves it with status Failed or Cancelled.
C11_ProgressMonotone ==
    [][\A id \in DOMAIN installs' :
         /\ installs'[id].progress \in 0..100
         /\ (id \in DOMAIN installs /\ installs'[id].progress < installs[id].progress) =>
                installs'[id].status \in {"Failed", "Cancelled"}]_vars

\* a record that had announced its download (progress 10, step 1 of 3 or 4)
\* has dropped to progress 0 with the failure of the fetch
C11_Witness ==
    \E id \in DOMAIN installs :
        /\ installs[id].status = "Failed"
        /\ installs[id].progress = 0
        /\ installs[id].current_step_number = Some(1)
        /\ installs[id].total_steps \in {Some(3), Some(4)}

\* C12: when npm or git has exited with a non-zero code, the step with which
\* the background task ends leaves the record Failed, with progress 0, with
\* completed_at and with an error text that embeds that exit code.
C12_FailedRecordEmbedsExitCode ==
    [][\A id \in DOMAIN task :
         (/\ task[id].pc # "done"
          /\ task'[id].pc = "done"
          /\ task[id].exit # NoneV
          /\ id \in DOMAIN installs') =>
            /\ installs'[id].status = "Failed"
            /\ installs'[id].progress = 0
            /\ installs'[id].completed_at # NoneV
            /\ \E e \in installs'[id].error : e.code = task[id].exit]_vars

TerminalStatuses == {"Completed", "Failed", "Cancelled"}

\* C13: under a scheduler that lets every background task run, every record
\* in the tracker is eventually removed or comes to rest in one of the
\* statuses Completed, Failed, Cancelled.
C13_InstallReachesTerminal ==
    \A id \in InstallIds :
        [](id \in DOMAIN installs =>
              <>[](id \notin DOMAIN installs \/ installs[id].status \in TerminalStatuses))

\* a task that could not create its target directory has ended, and its
\* record is Failed with the OS error
C13_Witness ==
    \E id \in DOMAIN installs :
        /\ TaskAt(id, "done")
        /\ installs[id].status = "Failed"
        /\ \E e \in installs[id].error : e.text \in IoErrors

\* C14: install_server called with a config that validate_install rejects
\* whatever tools are on PATH returns an error at once: it starts no
\* background task and creates no record.
C14_InvalidConfigRejectedSynchronously ==
    [][\A t \in Threads, config \in Configs :
         (InstallCall(t, config) /\ ~validate_install(config, fs, Tools).valid) =>
            /\ task' = task
            /\ installs' = installs
            /\ ret'.kind \notin {"ok", "none"}]_vars

\* an identifier the pattern of its source does not match
SyntaxInvalid(config) ==
    \/ config.source = "npm" /\ ~IsNpmName(TheValue(config.package_name))
    \/ config.source = "github" /\ ~IsGitHubRepository(TheValue(config.repository))

\* C15: for an npm or github config whose identifier is syntactically
\* invalid, validate_install returns valid = false and at least one error,
\* and has run no external command.
C15_InvalidIdentifierNoProbe ==
    (ret.call.op = "validate" /\ ret.kind = "ok" /\ SyntaxInvalid(ret.call.config)) =>
        \A v \in ret.val :
            /\ v.valid = FALSE
            /\ Len(v.errors) >= 1
            /\ v.probed = {}

\* ------------------------------------------------------------------------
\* Properties of uninstall_server
\* ------------------------------------------------------------------------
\* another install goes to the same directory
OtherInstallAt(id, path) ==
    \E j \in DOMAIN task : j # id /\ TargetDir(task[j].config) = path

C17_UninstallNotFoundChangesNothing ==
    [][\A t \in Threads, id \in InstallIds, sid \in ServerIdArgs, stop \in StopFlags :
         (UninstallCall(t, id, sid, stop) /\ id \notin DOMAIN install_metadata) =>
            /\ ret'.kind = "not_found"
            /\ pc'[t] = "idle"
            /\ UNCHANGED <<install_metadata, installs, task, fs, writers, disk,
                           procs, os, lock>>]_vars

\* an uninstall that named a running server and asked for it to be stopped
\* has failed with not-found, the server's process still running
C17_Witness ==
    /\ ret.call.op = "uninstall"
    /\ ret.kind = "not_found"
    /\ UnwrapOr(ret.call.stop_process, TRUE)
    /\ \E sid \in ret.call.server_id :
          /\ sid \in DOMAIN procs
          /\ IsRunning(os[procs[sid].child])

\* C18: under a scheduler that lets every thread run, an uninstall_server
\* that goes to stop the server always gets past the stop and on to the
\* removal, whether or not the server's process exits.
C18_UninstallGetsPastStop ==
    \A t \in Threads :
        (pc[t] \in {"uninstall_stop", "uninstall_wait"}) ~> (pc[t] = "uninstall_delete")

\* no change of the metadata map is waiting for its write to be triggered
PersistQuiescent ==
    /\ \A id \in DOMAIN task : task[id].pc # "persist"
    /\ \A t \in Threads : pc[t] \notin {"uninstall_progress", "uninstall_persist"}

\* C19: when the last of the triggered writes has been done and no change of
\* the metadata map is waiting for its write to be triggered, the document
\* on disk holds exactly the records of the map.
C19_DiskMatchesMemoryAfterWrites ==
    [][\A snapshot \in writers :
         (WriterRun(snapshot) /\ writers' = {} /\ PersistQuiescent) =>
            disk' = Snapshot(install_metadata')]_vars

\* ------------------------------------------------------------------------
\* Properties of the locking
\* ------------------------------------------------------------------------
\* the thread is at a lock() call for l
Wants(t, l) == pc[t] = "locks" /\ Head(call[t].script) = Acq(l)

\* the thread's next step is not blocked
CanStep(t) ==
    /\ pc[t] = "locks"
    /\ \A l \in LockNames : Wants(t, l) => Holder(l) = NoThread

\* C20: no thread holds two of the five mutexes at once, none is at a lock()
\* call for a mutex it holds, and as long as some operation is under way
\* some operation can take its next step.
C20_LocksNeverNested ==
    /\ \A t \in Threads : Cardinality(HeldBy(t)) <= 1
    /\ \A t \in Threads, l \in LockNames : Wants(t, l) => Holder(l) # t
    /\ (\E t \in Threads : pc[t] = "locks") => \E t \in Threads : CanStep(t)

\* an uninstall_server holds INSTALL_METADATA while another thread is at a
\* lock() call for the same mutex
C20_Witness ==
    \E t \in Threads, u \in Threads :
        /\ t # u
        /\ pc[t] = "locks"
        /\ call[t].op = "uninstall_server"
        /\ call[t].script = <<Rel("INSTALL_METADATA")>>
        /\ HeldBy(t) = {"INSTALL_METADATA"}
        /\ Wants(u, "INSTALL_METADATA")

\* ------------------------------------------------------------------------
\* Properties of the registry cache
\* ------------------------------------------------------------------------
HasId(list, id) == \E i \in 1..Len(list) : list[i].id = id

\* a registry_refresh has just returned
Refreshed == ret.kind # "none" /\ ret.call.op = "registry_refresh"

\* C21: the cache never holds two entries with the same id, whatever the
\* live searches returned and however the rebuilds interleave.
C21_CacheIdsUnique ==
    \A i, j \in 1..Len(cache) : i # j => cache[i].id # cache[j].id

\* a refresh whose package search listed the same package twice has stored
\* its list while the other thread is about to store its own
C21_Witness ==
    /\ Refreshed
    /\ HasId(cache, <<"m", "c", "p">>)
    /\ \E t \in Threads : pc[t] = "update_store"

\* C22: once the cache has been rebuilt, every curated id is in it and the
\* entry under a curated id is the curated entry.
C22_CuratedEntriesWin ==
    cache # << >> =>
        \A k \in 1..Len(known_servers) :
            /\ HasId(cache, known_servers[k].id)
            /\ \A i \in 1..Len(cache) :
                 cache[i].id = known_servers[k].id => cache[i] = known_servers[k]

\* the package search returned server-fetch (with its own description) next
\* to Zmcp, and the refresh has stored its list
C22_Witness ==
    /\ Refreshed
    /\ ret.call.npm = "ok"
    /\ HasId(cache, <<"Z", "m", "c", "p">>)

\* the tags of the entries of the cache
CacheTags ==
    {tag \in UNION {{TheValue(cache[i].tags)[k] : k \in 1..Len(TheValue(cache[i].tags))} :
                      i \in {j \in 1..Len(cache) : cache[j].tags # NoneV}} : TRUE}

\* C25: registry_categories returns a strictly ascending list whose elements
\* are exactly the tags of the entries of the cache.
C25_CategoriesSortedTagSet ==
    (ret.kind = "ok" /\ ret.call.op = "registry_categories") =>
        LET v == TheValue(ret.val) IN
        /\ \A i, j \in 1..Len(v) : i < j => StrLess(v[i], v[j])
        /\ {v[i] : i \in 1..Len(v)} = CacheTags

\* the categories of a cache with the tags "A" and "b" of a package and the
\* tags of the curated entries: "A" comes first
C25_Witness ==
    /\ ret.kind = "ok"
    /\ ret.call.op = "registry_categories"
    /\ <<"b">> \in CacheTags
    /\ TheValue(ret.val)[1] = <<"A">>

\* the thread is inside update_cache
Rebuilding(t) == pc[t] \in {"update_npm", "update_github", "update_store"}

\* C26: two registry_search calls that found the cache empty do not both
\* rebuild it.
C26_OneRebuildForTwoSearches ==
    ~(\A t \in Threads : Rebuilding(t) /\ call[t].op = "registry_search")

\* C27: a refresh returns success; a live search that failed added no entry
\* of its source, and when both failed the cache is the curated list.
C27_FailedSearchAddsNothing ==
    Refreshed =>
        /\ ret.kind = "ok"
        /\ ret.call.npm = "failed" =>
             \A i \in 1..Len(cache) :
                 cache[i].source = "npm" => HasId(known_servers, cache[i].id)
        /\ ret.call.github = "failed" =>
             \A i \in 1..Len(cache) : cache[i].source # "github"
        /\ (ret.call.npm = "failed" /\ ret.call.github = "failed") =>
             cache = known_servers

\* a refresh both of whose searches failed has returned
C27_Witness ==
    /\ Refreshed
    /\ ret.kind = "ok"
    /\ ret.call.npm = "failed"
    /\ ret.call.github = "failed"
    /\ cache = known_servers

\* ------------------------------------------------------------------------
\* Properties of registry_search
\* ------------------------------------------------------------------------
\* a registry_search has just returned
Searched == ret.kind = "ok" /\ ret.call.op = "registry_search"

RECURSIVE FlattenPages(_)
FlattenPages(ps) ==
    IF ps = << >> THEN << >> ELSE Head(ps).page \o FlattenPages(Tail(ps))

\* the pages of the client, the one just returned included
PagesRead == Append(pages, [offset |-> UnwrapOrElse(ret.call.filters.offset, 0),
                            page |-> TheValue(ret.val).page])

\* C23: a client that starts at offset 0 with a limit of at least 1 and
\* moves the offset on by the limit has, when no more is announced, read the
\* filtered and sorted list: every entry once, in order.
C23_PagesPartitionResults ==
    (/\ Searched
     /\ ~TheValue(ret.val).has_more
     /\ UnwrapOrElse(ret.call.filters.limit, 20) >= 1
     /\ PagesRead[1].offset = 0)
    => FlattenPages(PagesRead) = Matching(cache, ret.call.filters)

\* twelve entries read in pages of three
C23_Witness ==
    /\ Searched
    /\ ~TheValue(ret.val).has_more
    /\ ret.call.filters.limit = Some(3)
    /\ Len(pages) = 3
    /\ pages[1].offset = 0
    /\ Len(TheValue(ret.val).page) = 3

\* the entries of the cache the filters let through
MatchingIndexes(filters) ==
    {i \in 1..Len(cache) :
        /\ filters.query # NoneV => MatchesQuery(cache[i], TheValue(filters.query))
        /\ filters.source # NoneV => MatchesSource(cache[i], TheValue(filters.source))
        /\ filters.verified # NoneV =>
             (cache[i].verified = Some(TRUE)) = TheValue(filters.verified)}

\* C24: total is the number of entries the filters let through, the page has
\* min(limit, max(0, total - offset)) entries and has_more says whether
\* offset + limit < total, with 20 for a missing limit and 0 for a missing
\* offset.
C24_TotalPageAndHasMore ==
    Searched =>
        LET r == TheValue(ret.val)
            f == ret.call.filters
            limit == IF f.limit = NoneV THEN 20 ELSE TheValue(f.limit)
            offset == IF f.offset = NoneV THEN 0 ELSE TheValue(f.offset)
            rest == IF r.total > offset THEN r.total - offset ELSE 0
        IN /\ r.total = Cardinality(MatchingIndexes(f))
           /\ Len(r.page) = IF limit < rest THEN limit ELSE rest
           /\ r.has_more = (offset + limit < r.total)

\* no limit given and ten of twelve entries left from offset 2 on
C24_Witness ==
    /\ Searched
    /\ ret.call.filters.limit = NoneV
    /\ ret.call.filters.offset = Some(2)
    /\ TheValue(ret.val).total = 12
    /\ Len(TheValue(ret.val).page) = 10
    /\ ~TheValue(ret.val).has_more

\* ------------------------------------------------------------------------
\* Properties of cleanup_install
\* ------------------------------------------------------------------------
\* C28: cleanup_install takes the record of its id out of the tracker and
\* leaves the other records, the metadata store, the directories, the
\* document on disk, the install threads and the process registry as they
\* were; a record that is gone does not come back, whatever its thread does
\* later, and get_install_progress of it fails with not-found.
C28_CleanupRemovesOnlyProgress ==
    [][/\ \A t \in Threads, id \in DOMAIN task :
            CleanupCall(t, id) =>
               /\ ret'.kind = "ok"
               /\ id \notin DOMAIN installs'
               /\ \A other \in DOMAIN installs \ {id} :
                    other \in DOMAIN installs' /\ installs'[other] = installs[other]
               /\ UNCHANGED <<install_metadata, fs, writers, disk, task, procs, os>>
       /\ \A id \in DOMAIN task :
            id \notin DOMAIN installs => id \notin DOMAIN installs'
       /\ \A t \in Threads, id \in DOMAIN task :
            (GetProgressCall(t, id) /\ id \notin DOMAIN installs) =>
               ret'.kind = "not_found"]_vars

\* the record of install 1 was cleaned up while its thread was still at work
\* and while install 2 had moved on; a later get_install_progress(1) has
\* failed with not-found
C28_Witness ==
    /\ ret.kind = "not_found"
    /\ ret.call.op = "progress"
    /\ ret.call.install = 1
    /\ 1 \notin DOMAIN installs
    /\ task[1].pc \notin {"begin", "done", "failed"}
    /\ 2 \in DOMAIN installs
    /\ installs[2].status # "Pending"

\* ------------------------------------------------------------------------
\* Properties of the serialised forms
\* ------------------------------------------------------------------------
LowercaseLetters == {Alphabet[i] : i \in Ord["a"]..Ord["z"]}

Stage(p) == <<p.status, p.progress>>

StageSequence(source) ==
    IF source = "npm"
    THEN <<<<"Pending", 0>>, <<"Downloading", 10>>, <<"Configuring", 80>>,
           <<"Completed", 100>>>>
    ELSE IF source = "github"
    THEN <<<<"Pending", 0>>, <<"Downloading", 10>>, <<"Installing", 60>>,
           <<"Completed", 100>>>>
    ELSE <<<<"Pending", 0>>, <<"Configuring", 50>>, <<"Completed", 100>>>>

\* C30: a record enters the tracker as Pending/0; as long as it was neither
\* cancelled nor failed (it carries no completion stamp), every step that
\* changes its status or progress, other than a cancel or a failure, moves it
\* to the next stage of the sequence of its source (npm: Pending/0,
\* Downloading/10, Configuring/80, Completed/100; github: Pending/0,
\* Downloading/10, Installing/60, Completed/100; local: Pending/0,
\* Configuring/50, Completed/100), and when that stage is Completed the
\* metadata record of the install is already in the metadata store.
C30_StagesOfSuccessfulInstall ==
    [][\A id \in DOMAIN installs' :
         /\ id \notin DOMAIN installs => Stage(installs'[id]) = <<"Pending", 0>>
         /\ (/\ id \in DOMAIN installs
             /\ installs[id].completed_at = NoneV
             /\ installs'[id].status \notin {"Failed", "Cancelled"}
             /\ Stage(installs'[id]) # Stage(installs[id])) =>
                LET stages == StageSequence(task[id].config.source)
                IN /\ \E i \in 1..(Len(stages) - 1) :
                        /\ stages[i] = Stage(installs[id])
                        /\ stages[i + 1] = Stage(installs'[id])
                   /\ installs'[id].status = "Completed" =>
                        /\ id \in DOMAIN install_metadata
                        /\ install_metadata[id].install_id = id
                        /\ install_metadata'[id] = install_metadata[id]]_vars

\* a github install has come to Completed/100 with its four steps counted,
\* its metadata stored and its document handed to a writer or written
C30_Witness ==
    \E id \in DOMAIN installs :
        /\ Stage(installs[id]) = <<"Completed", 100>>
        /\ installs[id].message = "Installation completed successfully"
        /\ installs[id].current_step_number = Some(4)
        /\ installs[id].error = NoneV
        /\ TaskAt(id, "done")
        /\ task[id].config.source = "github"
        /\ id \in DOMAIN install_metadata
        /\ install_metadata[id].source_type = "github"

\* ------------------------------------------------------------------------
\* Further properties of the lifecycle supervisor
\* ------------------------------------------------------------------------
\* the snapshots a command has returned: those of start, restart and status
\* as they are, those of list without their ids
SnapshotsReturned ==
    IF ret.kind # "ok" THEN {}
    ELSE IF ret.call.op \in {"start", "restart", "status"} THEN ret.val
    ELSE IF ret.call.op = "list" THEN {s.process : s \in ret.val}
    ELSE {}

\* C31: restart_count is 0 in every record of the registry, in every record
\* a start is about to insert (also the start inside a restart, also over a
\* prior record) and in every snapshot a command returns, and no step lowers
\* the counter of a record.
C31_RestartCountStaysZero ==
    [][/\ \A id \in DOMAIN procs' : procs'[id].state.restart_count = 0
       /\ \A t \in Threads : \A e \in local'[t] : e.state.restart_count = 0
       /\ \A s \in SnapshotsReturned' : s.restart_count = 0
       /\ \A id \in DOMAIN procs \cap DOMAIN procs' :
            procs'[id].state.restart_count >= procs[id].state.restart_count]_vars

\* a start has replaced the record of an exited process by that of a second
\* process and returned its snapshot
C31_Witness ==
    /\ ret.kind = "ok"
    /\ ret.call.op = "start"
    /\ \E e \in ret.pre : e.child = 1 /\ e.state.restart_count = 0
    /\ \E s \in ret.val : s.pid = Some(2) /\ s.restart_count = 0
    /\ ret.call.id \in DOMAIN procs
    /\ procs[ret.call.id].child = 2

\* C32: a snapshot returned by mcp_get_status or mcp_list_running whose
\* state is Stopped or Error has no pid.
C32_NoPidOnceStopped ==
    (ret.kind = "ok" /\ ret.call.op \in {"status", "list"}) =>
        \A s \in SnapshotsReturned :
            s.state \in {"Stopped", "Error"} => s.pid = NoneV

\* C33: a forced mcp_stop_server whose kill fails returns the error of the
\* kill, and the registry then holds no record for the id, while the other
\* records are as they were.
C33_FailedKillLeavesNoRecord ==
    [][\A t \in Threads, id \in ServerIds :
         (StopCall(t, id, TRUE) /\ id \in DOMAIN procs /\ ret'.kind # "ok") =>
            /\ ret'.kind = "kill_err"
            /\ ret'.err = Some("Failed to kill process")
            /\ id \notin DOMAIN procs'
            /\ \A other \in DOMAIN procs \ {id} :
                 other \in DOMAIN procs' /\ procs'[other] = procs[other]]_vars

\* a forced stop of a recorded process that had exited has failed, and its
\* record, which was there when the call began, is gone
C33_Witness ==
    /\ ret.kind = "kill_err"
    /\ ret.call.op = "stop"
    /\ ret.call.force
    /\ \E e \in ret.pre : HasExited(os[e.child])
    /\ ret.call.id \notin DOMAIN procs

\* C35: when the process of a record has exited, with an exit code or by a
\* signal, mcp_get_status does not return a Running snapshot for it, and
\* mcp_start_server for its id does not return the record but goes on to
\* spawn a new process.
C35_ExitedIsNeverRunning ==
    [][\A t \in Threads, id \in ServerIds :
         (/\ id \in DOMAIN procs
          /\ HasExited(os[procs[id].child])
          /\ GetStatusCall(t, id) \/ StartCall(t, id)) =>
            /\ \A s \in ret'.val : s.state # "Running"
            /\ StartCall(t, id) => pc'[t] = "start_spawn"]_vars

\* ------------------------------------------------------------------------
\* Further properties of registry_search
\* ------------------------------------------------------------------------
\* text contains part when case is ignored
ContainsIgnoringCase(text, part) ==
    \E i \in 0..(Len(text) - Len(part)) :
        \A k \in 1..Len(part) : LowerOf(text[i + k]) = LowerOf(part[k])

OrZero(opt) == IF opt = NoneV THEN 0 ELSE TheValue(opt)
OrEmpty(opt) == IF opt = NoneV THEN << >> ELSE TheValue(opt)

\* entry a goes before entry b in the order asked for
Precedes(a, b, sort_by) ==
    IF sort_by = Some("downloads") THEN OrZero(a.downloads) > OrZero(b.downloads)
    ELSE IF sort_by = Some("stars") THEN OrZero(a.stars) > OrZero(b.stars)
    ELSE IF sort_by = Some("updated")
    THEN StrLess(OrEmpty(b.last_updated), OrEmpty(a.last_updated))
    ELSE StrLess(a.name, b.name)

\* the positions in the cache of the entries the filters ask for
Selected(f) ==
    {i \in 1..Len(cache) :
        /\ f.query # NoneV =>
             \/ ContainsIgnoringCase(cache[i].name, TheValue(f.query))
             \/ ContainsIgnoringCase(cache[i].description, TheValue(f.query))
             \/ \E n \in 1..Len(OrEmpty(cache[i].tags)) :
                  ContainsIgnoringCase(OrEmpty(cache[i].tags)[n], TheValue(f.query))
        /\ f.source # NoneV => cache[i].source = TheValue(f.source)
        /\ f.verified # NoneV =>
             (cache[i].verified = Some(TRUE)) = TheValue(f.verified)}

\* those entries in the order asked for, entries of equal key in the order
\* of the cache
SelectedInOrder(f) ==
    LET sel == Selected(f)
        ahead(i) == {j \in sel :
                       \/ Precedes(cache[j], cache[i], f.sort_by)
                       \/ ~Precedes(cache[i], cache[j], f.sort_by) /\ j < i}
    IN Collect([k \in 1..Cardinality(sel) |->
                  cache[CHOOSE i \in sel : Cardinality(ahead(i)) = k - 1]])

\* C34: the list registry_search takes its page from (all of it is the page
\* when neither limit nor offset is given and it has at most 20 entries) is
\* made of the cache entries whose name, description or some tag contains
\* the query, case ignored, whose source is the one asked for and whose
\* verified flag, false when absent, is the one asked for; it is in the
\* order of downloads, stars or last_updated descending or of the name
\* ascending, absent numbers counting as 0, entries of equal key staying in
\* the order of the cache.
C34_SearchFiltersAndSorts ==
    (/\ Searched
     /\ ret.call.filters.limit = NoneV
     /\ ret.call.filters.offset = NoneV
     /\ Len(cache) <= 20) =>
        /\ TheValue(ret.val).page = SelectedInOrder(ret.call.filters)
        /\ TheValue(ret.val).total = Cardinality(Selected(ret.call.filters))

\* a query that only a tag answers ("b" against the tags b, A of Zmcp and
\* against the tag github) among others that the name answers, sorted by
\* stars with ties
C34_Witness ==
    /\ Searched
    /\ ret.call.filters.limit = NoneV
    /\ ret.call.filters.offset = NoneV
    /\ ret.call.filters.query = Some(<<"b">>)
    /\ ret.call.filters.sort_by = Some("stars")
    /\ ret.call.filters.source = NoneV
    /\ \E k \in 1..Len(TheValue(ret.val).page) :
         TheValue(ret.val).page[k].name = <<"Z", "m", "c", "p">>
    /\ TheValue(ret.val).page[1].stars = Some(9)
    /\ TheValue(ret.val).page[2].stars = Some(3)
    /\ TheValue(ret.val).page[3].stars = Some(3)
    /\ Len(TheValue(ret.val).page) >= 6

\* ------------------------------------------------------------------------
\* Further properties of the installer
\* ------------------------------------------------------------------------
\* C37: once the background task of an install has ended, with the record
\* Completed or Failed, no step changes the status of the record as long as
\* the record is in the tracker; cancel_install in particular does not.
C37_TerminalStatusIsStable ==
    [][\A id \in DOMAIN installs \cap DOMAIN installs' :
         (TaskAt(id, "done") /\ installs[id].status \in {"Completed", "Failed"}) =>
            installs'[id].status = installs[id].status]_vars

\* C38: a progress record carries completed_at exactly when its status is
\* Completed, Failed or Cancelled.
C38_CompletedAtIffTerminal ==
    \A id \in DOMAIN installs :
        (installs[id].completed_at # NoneV) <=>
            (installs[id].status \in TerminalStatuses)

\* ------------------------------------------------------------------------
\* Properties of the load at startup
\* ------------------------------------------------------------------------
\* C40: with installs and their persistence writes under way and nothing
\* uninstalled, every record of the document found at startup stays in the
\* document on disk, and is in the metadata map, as it was stored, once the
\* load has finished.
C40_StoredRecordsSurviveStartup ==
    \A r \in StoredDocument :
        /\ r \in disk
        /\ startup.pc = "done" => Lookup(install_metadata, r.install_id) = Some(r)

\* ------------------------------------------------------------------------
\* Further properties of uninstall_server
\* ------------------------------------------------------------------------
\* C39: when uninstall_server fails on the deletion of the directory of an
\* npm or github install, or on a source type it does not know, it returns
\* that error; the metadata record of the install id is still in the map as
\* it was looked up, the progress record is as it was and is there for every
\* install of this run, and no persistence write has been queued or made.
C39_FailedUninstallKeepsRecords ==
    [][\A t \in Threads, e \in IoErrors :
          UninstallDeleteFail(t, e) =>
             LET id == call[t].install IN
             /\ ret'.thread = t
             /\ ret'.kind \in {"delete_err", "unknown_source"}
             /\ ret'.err # NoneV
             /\ ret'.kind = "unknown_source" <=>
                   TheValue(call[t].metadata).source_type \notin {"npm", "github"}
             /\ Lookup(install_metadata', id) = call[t].metadata
             /\ Lookup(installs', id) = Lookup(installs, id)
             /\ id \in InstallIds => id \in DOMAIN installs'
             /\ writers' = writers
             /\ disk' = disk]_vars

\* uninstall_server of a completed npm install of this run has failed on the
\* deletion of its directory: both records and the directory are there
C39_Witness ==
    /\ ret.kind = "delete_err"
    /\ ret.call.op = "uninstall"
    /\ ret.call.install \in DOMAIN installs
    /\ installs[ret.call.install].status = "Completed"
    /\ Lookup(install_metadata, ret.call.install) = ret.call.metadata
    /\ TheValue(ret.call.metadata).source_type = "npm"
    /\ TheValue(ret.call.metadata).install_path \in fs

\* uninstall_server of the stored record of an unknown source type has failed
C39_UnknownSourceSeen ==
    /\ ret.kind = "unknown_source"
    /\ ret.call.op = "uninstall"
    /\ ret.call.install \in StoredIds
    /\ Lookup(install_metadata, ret.call.install) = ret.call.metadata

\* the install has reached Completed and its metadata record is in the map
RecordedCompleted(id) ==
    /\ id \in DOMAIN install_metadata
    /\ id \in DOMAIN installs
    /\ installs[id].status = "Completed"

\* C36: when uninstall_server of a completed install deletes its directory,
\* the install_path of every other completed install that is still recorded
\* in the metadata map and was on disk is on disk afterwards.
C36_UninstallSparesOtherInstalls ==
    [][\A t \in Threads :
          (UninstallDeleteDir(t) /\ RecordedCompleted(call[t].install)) =>
             \A other \in DOMAIN install_metadata \ {call[t].install} :
                (RecordedCompleted(other) /\ install_metadata[other].install_path \in fs) =>
                    install_metadata[other].install_path \in fs']_vars

====
